---- MODULE Spec2Model ----
(***************************************************************************)
(* Model of lemoneval's test-graph scoring engine: the node classes of     *)
(* core/graph.py, the file-backed program test of files/graph.py with its  *)
(* sandbox and program wrapper, and the evaluation of a graph by the       *)
(* Result object of core/result.py.                                        *)
(*                                                                         *)
(* A node graph is a heap (a sequence of node records, a node's identity   *)
(* being its index).  Python's recursion result[x] -> process(x) ->        *)
(* x.evaluate -> result[y] ... is an explicit stack of frames; each action *)
(* is one step of the frame on top of the stack.                           *)
(***************************************************************************)
EXTENDS Integers, Sequences, FiniteSets, TLC

VARIABLES nodes, root, shape, args, data,
          pc, stack, processed, final_score, error,
          evalCount, calls, sandboxes, onDemand,
          call, ret, second, session, history, instance

vars == <<nodes, root, shape, args, data, pc, stack, processed, final_score,
          error, evalCount, calls, sandboxes, onDemand, call, ret, second,
          session, history, instance>>

graphVars == <<nodes, root, shape, args, data>>

\* the Result under evaluation and what it works on
resultVars == <<nodes, root, shape, args, data, pc, stack, processed,
                final_score, error, evalCount, calls, sandboxes, onDemand>>

\* a call of a function that is used on its own (a constructor, a checker)
\* and what it returned or raised, a second Result over the same graph, and
\* a session of an exercise framework with what has been done to it, and a
\* framework object under construction or attack; no step of the Result
\* under evaluation touches them
otherVars == <<call, ret, second, session, history, instance>>
\* what a function used on its own leaves alone
calleeVars == <<resultVars, call, second, session, history, instance>>

(***************************************************************************)
(* Bounds of the model.                                                    *)
(***************************************************************************)
\* largest number of leaf nodes handed to a composition operator
MaxLeaves == 3
\* random.random() is drawn from 0 .. Samples-1, standing for [0, 1)
Samples == 2
\* answers found in data, and outputs a program can return: 1 .. MaxAnswer
MaxAnswer == 2
\* most lookups of a node without a NodeResult that a client makes
MaxOnDemand == 1

\* time_limit=60 of Executable.__call__ and of FileProgramTestNode.__init__
DefaultTimeLimit == 60

None == "None"
NoError == "none"

\* no call is being made
NoCall == [fn |-> "none"]
NoReturn == [status |-> "pending"]
NoResult == [pc |-> "absent"]
NoSession == [framework |-> [name |-> "none"]]
NoHistory ==
    [resumes |-> 0, ended |-> FALSE, ran |-> <<>>, did |-> [type |-> "none"]]
\* no framework object has been constructed
NoInstance == [cls |-> "none"]
NoOthers ==
    /\ second = NoResult
    /\ session = NoSession
    /\ history = NoHistory
    /\ instance = NoInstance
OthersIdle == call = NoCall /\ ret = NoReturn /\ NoOthers

(***************************************************************************)
(* Node records.  Every record has every field; a class that lacks a field *)
(* leaves it at an inert value.                                            *)
(***************************************************************************)
NoPredicate == [callable |-> FALSE, value |-> 0]

BlankNode ==
    [kind |-> "BaseNode", full_score |-> 0, operand |-> <<>>, op |-> None,
     key |-> None, predicate |-> NoPredicate, threshold |-> 0,
     time_limit |-> 0]

ConstantNode(full_score) ==
    [BlankNode EXCEPT !.kind = "Constant", !.full_score = full_score]

LotteryNode(full_score, threshold) ==
    [BlankNode EXCEPT !.kind = "Lottery", !.full_score = full_score,
                      !.threshold = threshold]

\* a callable predicate is kept; anything else becomes lambda x: x == predicate
AnswerOnlyTestNode(full_score, answer_id, predicate) ==
    [BlankNode EXCEPT !.kind = "AnswerOnlyTest", !.full_score = full_score,
                      !.key = answer_id, !.predicate = predicate]

ProgramTestNode(full_score, program_id, predicate) ==
    [BlankNode EXCEPT !.kind = "ProgramTest", !.full_score = full_score,
                      !.key = program_id, !.predicate = predicate]

FileProgramTestNode(full_score, program_id, time_limit) ==
    [BlankNode EXCEPT !.kind = "FileProgramTest", !.full_score = full_score,
                      !.key = program_id, !.time_limit = time_limit]

(***************************************************************************)
(* Values handed to the node constructors: a node, a number, or something  *)
(* else.                                                                   *)
(***************************************************************************)
NodeVal(id) == [tag |-> "node", v |-> id]
NumVal(n) == [tag |-> "num", v |-> n]
\* a value that is neither a node nor a number, such as a string
OtherVal == [tag |-> "second", v |-> 0]

\* a heap with one more node, and the identity of that node
NewNode(heap, rec) == [heap |-> Append(heap, rec), id |-> Len(heap) + 1,
                       err |-> NoError]

make_node(heap, value) ==
    IF value.tag = "node" THEN [heap |-> heap, id |-> value.v, err |-> NoError]
    ELSE IF value.tag = "num" THEN NewNode(heap, ConstantNode(value.v))
    ELSE [heap |-> heap, id |-> 0, err |-> "TypeError"]

\* self.operand = [ self.make_node(arg) for arg in args ]
RECURSIVE make_nodes(_, _)
make_nodes(heap, values) ==
    IF values = <<>> THEN [heap |-> heap, ids |-> <<>>, err |-> NoError]
    ELSE LET first == make_node(heap, Head(values)) IN
         IF first.err # NoError
         THEN [heap |-> heap, ids |-> <<>>, err |-> first.err]
         ELSE LET rest == make_nodes(first.heap, Tail(values)) IN
              [heap |-> rest.heap, ids |-> <<first.id>> \o rest.ids,
               err |-> rest.err]

OperatorNode(heap, op, values) ==
    LET made == make_nodes(heap, values) IN
    IF made.err # NoError THEN [heap |-> heap, id |-> 0, err |-> made.err]
    ELSE NewNode(made.heap,
                 [BlankNode EXCEPT !.kind = "Operator", !.op = op,
                                   !.operand = made.ids])

\* operand is <<if_expr, then_expr, else_expr>>
TernaryIfNode(heap, if_expr, then_expr, else_expr) ==
    LET made == make_nodes(heap, <<if_expr, then_expr, else_expr>>) IN
    IF made.err # NoError THEN [heap |-> heap, id |-> 0, err |-> made.err]
    ELSE NewNode(made.heap,
                 [BlankNode EXCEPT !.kind = "TernaryIf", !.operand = made.ids])

if_expr(n) == nodes[n].operand[1]
\* a TernaryIfNode that takes its condition for its then branch
then_expr_is_if(n) == nodes[n].operand[1]

then_expr(n) == nodes[n].operand[2]

\* a TernaryIfNode whose else branch is taken from its then branch
else_expr_swapped(n) == nodes[n].operand[2]

else_expr(n) == nodes[n].operand[3]

\* chains(first, second, *rest); values holds at least two values
RECURSIVE chains(_, _)
chains(heap, values) ==
    LET first == values[1]
        next_node == IF Len(values) > 2
                     THEN chains(heap, Tail(values))
                     ELSE [heap |-> heap, id |-> values[2].v, err |-> NoError]
        sum_node == OperatorNode(next_node.heap, "add",
                                 <<first, NodeVal(next_node.id)>>)
    IN  TernaryIfNode(sum_node.heap, first, NodeVal(sum_node.id), NumVal(0))

node_sum(heap, expressions) == OperatorNode(heap, "sum", expressions)

\* node_max(first, *rest) and node_min(first, *rest) called with one sequence
node_max(heap, first) == OperatorNode(heap, "max", first)
node_min(heap, first) == OperatorNode(heap, "min", first)

(***************************************************************************)
(* The graphs and the data a Result is constructed over.                   *)
(***************************************************************************)
LeafKinds == {"Constant", "Lottery", "AnswerOnlyTest", "ProgramTest",
              "FileProgramTest"}

\* keys of the data dictionary, as in example/prog_2/tests/config.py
AnswerKey == "answer"
FunctionKey == "function"
ProgramKey == "program"

\* a time_limit below the default one
ShortTimeLimit == 10

\* the predicate argument of the i-th leaf: a plain value at odd positions
\* (equality with 1), a callable at even positions (lambda x: x >= 2)
PredicateAt(i) == IF i % 2 = 1 THEN [callable |-> FALSE, value |-> 1]
                  ELSE [callable |-> TRUE, value |-> 2]

Leaf(i, kind) ==
    CASE kind = "Constant" -> ConstantNode(i - 1)
      [] kind = "Lottery" -> LotteryNode(i, 1)
      [] kind = "AnswerOnlyTest" ->
            AnswerOnlyTestNode(i, AnswerKey, PredicateAt(i))
      [] kind = "ProgramTest" ->
            ProgramTestNode(i, FunctionKey, PredicateAt(i))
      [] kind = "FileProgramTest" ->
            FileProgramTestNode(i, ProgramKey,
                IF i % 2 = 1 THEN DefaultTimeLimit ELSE ShortTimeLimit)

\* the leaves handed to a composition operator: k leaves of different kinds,
\* in every order for chains, where the order decides what is evaluated, and
\* in one order for the other shapes
KindOrder == <<"FileProgramTest", "ProgramTest", "AnswerOnlyTest", "Lottery",
               "Constant">>
Rank(kind) == CHOOSE r \in 1..Len(KindOrder) : KindOrder[r] = kind
LeafChoices(s, k) ==
    {kinds \in [1..k -> LeafKinds] :
        \A i, j \in 1..k :
           i < j => IF s = "chains" THEN kinds[i] # kinds[j]
                    ELSE Rank(kinds[i]) < Rank(kinds[j])}

Leaves(kinds) == [i \in 1..Len(kinds) |-> Leaf(i, kinds[i])]
LeafArgs(kinds) == [i \in 1..Len(kinds) |-> NodeVal(i)]

\* n.operand.append(m): Python lets a caller rewire a node after construction
AppendOperand(heap, n, m) ==
    [heap EXCEPT ![n].operand = Append(@, m)]

Shapes == {"single", "chains", "sum", "max", "min", "shared", "selfref",
           "mutual"}

MinLeaves(s) == CASE s = "chains" -> 2
                  [] s \in {"sum", "max", "min"} -> 0
                  [] OTHER -> 1
MaxLeavesOf(s) == IF s = "single" THEN 1 ELSE MaxLeaves

\* the graph of shape s over the leaves of the given kinds
Build(s, kinds) ==
    LET heap == Leaves(kinds)
        leafs == LeafArgs(kinds)
    IN  CASE s = "single" -> [heap |-> heap, id |-> 1, err |-> NoError]
          [] s = "chains" -> chains(heap, leafs)
          [] s = "sum" -> node_sum(heap, leafs)
          [] s = "max" -> node_max(heap, leafs)
          [] s = "min" -> node_min(heap, leafs)
          [] s = "shared" ->
                \* node_sum(leafs) + node_max(leafs): every leaf has two parents
                LET a == node_sum(heap, leafs)
                    b == node_max(a.heap, leafs)
                IN  OperatorNode(b.heap, "add", <<NodeVal(a.id), NodeVal(b.id)>>)
          [] s = "selfref" ->
                \* a node that is its own operand
                LET a == node_sum(heap, leafs)
                IN  [a EXCEPT !.heap = AppendOperand(a.heap, a.id, a.id)]
          [] s = "mutual" ->
                \* p and q are operands of each other; q is the root
                LET p == node_sum(heap, leafs)
                    q == OperatorNode(p.heap, "add", <<NodeVal(p.id), NumVal(1)>>)
                IN  [q EXCEPT !.heap = AppendOperand(q.heap, p.id, q.id)]

KeyOf(kind) == CASE kind = "AnswerOnlyTest" -> AnswerKey
                 [] kind = "ProgramTest" -> FunctionKey
                 [] kind = "FileProgramTest" -> ProgramKey
                 [] OTHER -> None

ValuesOf(key) ==
    CASE key = AnswerKey -> {[type |-> "value", v |-> a] : a \in 1..MaxAnswer}
      [] key = FunctionKey -> {[type |-> "callable", v |-> 0]}
      [] key = ProgramKey -> {[type |-> "callable", v |-> 0],
                              [type |-> "Executable", v |-> 0]}

\* the dictionaries over (some of) the keys the leaves look up
DataFor(kinds) ==
    LET used == {KeyOf(kinds[i]) : i \in 1..Len(kinds)} \ {None}
    IN  UNION {{d \in [K -> UNION {ValuesOf(k) : k \in K}] :
                    \A k \in K : d[k] \in ValuesOf(k)} : K \in SUBSET used}

(***************************************************************************)
(* Result and NodeResult (core/result.py).                                 *)
(***************************************************************************)
\* a NodeResult that starts out successful
NodeResultOptimistic ==
    [completed |-> FALSE, success |-> 1, score |-> 0, messages |-> {}]

\* NodeResult.__init__
NodeResult == [completed |-> FALSE, success |-> 0, score |-> 0, messages |-> {}]

\* the success and score setters
SetSuccess(nr, value) ==
    IF nr.completed THEN [nr |-> nr, err |-> "AttributeError"]
    ELSE [nr |-> [nr EXCEPT !.success = value], err |-> NoError]

\* a score setter without the completed guard
SetScoreUnguarded(nr, value) ==
    [nr |-> [nr EXCEPT !.score = value], err |-> NoError]

SetScore(nr, value) ==
    IF nr.completed THEN [nr |-> nr, err |-> "AttributeError"]
    ELSE [nr |-> [nr EXCEPT !.score = value], err |-> NoError]

\* result[self].messages[key] = value
SetMessage(nr, key, value) ==
    [nr EXCEPT !.messages = {m \in @ : m[1] # key} \cup {<<key, value>>}]

NewFrame(node) == [node |-> node, i |-> 0, sub |-> <<>>, br |-> 0, sandbox |-> 0]

Init ==
    /\ \E s \in Shapes :
       \E k \in MinLeaves(s)..MaxLeavesOf(s) :
       \E kinds \in LeafChoices(s, k) :
          LET g == Build(s, kinds) IN
          /\ shape = s
          /\ args = LeafArgs(kinds)
          /\ nodes = g.heap
          /\ root = g.id
          /\ data \in DataFor(kinds)
    /\ pc = "new"
    /\ stack = <<>>
    /\ processed = <<>>
    /\ final_score = None
    /\ error = NoError
    /\ evalCount = [n \in 1..Len(nodes) |-> 0]
    /\ calls = {}
    /\ sandboxes = <<>>
    /\ onDemand = 0
    /\ OthersIdle

\* no Result is being constructed
ResultIdle ==
    /\ shape = "none"
    /\ args = <<>>
    /\ nodes = <<>>
    /\ root = 0
    /\ data = <<>>
    /\ pc = "idle"
    /\ stack = <<>>
    /\ processed = <<>>
    /\ final_score = None
    /\ error = NoError
    /\ evalCount = <<>>
    /\ calls = {}
    /\ sandboxes = <<>>
    /\ onDemand = 0

(***************************************************************************)
(* Sandbox (files/sandbox.py) and the program wrapper                      *)
(* (old/lemoneval/files/executable.py).                                    *)
(***************************************************************************)
TemporarySandbox(owner) ==
    [owner |-> owner, is_open |-> TRUE, exists |-> TRUE, files |-> {}]

\* a clean_up that closes the sandbox but leaves its directory behind
clean_up_keepdir(sb) ==
    IF sb.is_open THEN [sb EXCEPT !.is_open = FALSE] ELSE sb

clean_up(sb) ==
    IF sb.is_open
    THEN [sb EXCEPT !.is_open = FALSE, !.exists = FALSE, !.files = {}]
    ELSE sb

copy_file(sb, dest_path) == [sb EXCEPT !.files = @ \cup {dest_path}]

\* what a program does when it is run: how long it takes, its exit status,
\* and, for an in-process callable, whether it raises
Durations == {1, ShortTimeLimit + 1, DefaultTimeLimit + 1}
ExitCodes == {0, 1}
Behaviours == [duration : Durations, exit : ExitCodes, raises : BOOLEAN]

\* Executable.__call__(input_fname, output_fname, time_limit):
\* subprocess.run(..., timeout=time_limit, check=True)
Executable(beh, time_limit) ==
    IF beh.duration > time_limit THEN "TimeoutExpired"
    ELSE IF beh.exit # 0 THEN "CalledProcessError"
    ELSE NoError

\* program(input_fname, output_fname) as FileProgramTestNode.evaluate calls it
CallProgram(program, beh) ==
    IF program.type = "Executable" THEN Executable(beh, DefaultTimeLimit)
    ELSE IF beh.raises THEN "Exception" ELSE NoError

\* BaseChecker.__call__(self, full_score, input_fname, output_fname,
\* solution_fname) applied to the positional arguments argv
BaseChecker(argv, same) ==
    IF Len(argv) # 4 THEN [err |-> "TypeError", success |-> 0, score |-> 0]
    ELSE IF same THEN [err |-> NoError, success |-> 1, score |-> argv[1]]
    ELSE [err |-> NoError, success |-> 0, score |-> 0]

(***************************************************************************)
(* The functions of operator nodes.                                        *)
(***************************************************************************)
RECURSIVE SumOf(_)
SumOf(seq) == IF seq = <<>> THEN 0 ELSE Head(seq) + SumOf(Tail(seq))

MaxOf(seq) == CHOOSE x \in {seq[i] : i \in 1..Len(seq)} :
                  \A j \in 1..Len(seq) : seq[j] <= x
MinOf(seq) == CHOOSE x \in {seq[i] : i \in 1..Len(seq)} :
                  \A j \in 1..Len(seq) : x <= seq[j]

\* self.op(*subscores): operator.add takes two arguments, sum(exp) any
\* number, max and min at least two numbers
ApplyOp(op, subscores) ==
    CASE op = "add" ->
            IF Len(subscores) # 2 THEN [err |-> "TypeError", v |-> 0]
            ELSE [err |-> NoError, v |-> subscores[1] + subscores[2]]
      [] op = "sum" -> [err |-> NoError, v |-> SumOf(subscores)]
      [] op = "max" ->
            IF Len(subscores) < 2 THEN [err |-> "TypeError", v |-> 0]
            ELSE [err |-> NoError, v |-> MaxOf(subscores)]
      [] op = "min" ->
            IF Len(subscores) < 2 THEN [err |-> "TypeError", v |-> 0]
            ELSE [err |-> NoError, v |-> MinOf(subscores)]

\* an except clause that names KeyError only
ExceptKeyErrorOnly(err) == err = "KeyError"

\* try: program(...) except: -- the bare except clause catches every exception
BareExcept(err) == TRUE

\* a predicate that is used as given, a value that is not callable
\* counting as true
HoldsTruthy(predicate, x) ==
    IF predicate.callable THEN x >= predicate.value ELSE predicate.value # 0

\* self.predicate(x)
Holds(predicate, x) ==
    IF predicate.callable THEN x >= predicate.value ELSE x = predicate.value

(***************************************************************************)
(* Result.process and Result.__getitem__.                                  *)
(***************************************************************************)
Running == pc \in {"running", "lookup"} /\ stack # <<>>
top == Head(stack)
SetTop(frame) == <<frame>> \o Tail(stack)

\* a membership test that takes a NodeResult whose score is 0 for none
InMemoTruthy(key) == key \in DOMAIN processed /\ processed[key].score # 0

\* key in self._processed_nodes
InMemo(key) == key \in DOMAIN processed

\* an exception leaves the evaluation: nothing on the stack catches it
Unwind(err) ==
    /\ stack' = <<>>
    /\ error' = err
    /\ pc' = IF pc = "lookup" THEN "done" ELSE "failed"
    /\ UNCHANGED final_score

\* process(node), up to the call of node.evaluate
process(node, nextpc) ==
    IF InMemo(node)
    THEN IF processed[node].completed
         THEN UNCHANGED <<processed, stack, evalCount, pc, error,
                          final_score>>
         ELSE Unwind("ValueError") /\ UNCHANGED <<processed, evalCount>>
    ELSE /\ processed' = processed @@ (node :> NodeResult)
         /\ stack' = <<NewFrame(node)>> \o stack
         /\ evalCount' = [evalCount EXCEPT ![node] = @ + 1]
         /\ pc' = nextpc
         /\ error' = NoError
         /\ UNCHANGED final_score

\* a return that takes the final score from whatever evaluation ends
ReturnOverwrite(node, nr) ==
    /\ processed' = [processed EXCEPT ![node] = [nr EXCEPT !.completed = TRUE]]
    /\ stack' = Tail(stack)
    /\ IF Tail(stack) # <<>>
       THEN UNCHANGED <<pc, final_score>>
       ELSE /\ pc' = "done"
            /\ final_score' = processed'[node].score
    /\ UNCHANGED error

\* node.evaluate has returned with NodeResult nr: process marks it completed
\* and returns to its caller, which is another evaluate, Result.__init__ or
\* a __getitem__ of the client
Return(node, nr) ==
    /\ processed' = [processed EXCEPT ![node] = [nr EXCEPT !.completed = TRUE]]
    /\ stack' = Tail(stack)
    /\ IF Tail(stack) # <<>>
       THEN UNCHANGED <<pc, final_score>>
       ELSE IF pc = "running"
            THEN /\ pc' = "done"
                 /\ final_score' = processed'[root].score
            ELSE /\ pc' = "done"
                 /\ UNCHANGED final_score
    /\ UNCHANGED error

\* node.evaluate raised err, leaving NodeResult nr behind
Raise(node, nr, err) ==
    /\ processed' = [processed EXCEPT ![node] = nr]
    /\ Unwind(err)

\* Result.__init__
ResultInit ==
    /\ pc = "new"
    /\ process(root, "running")
    /\ UNCHANGED <<graphVars, otherVars, calls, sandboxes, onDemand>>

\* the node whose NodeResult the frame's evaluate asks for next (0: none)
Pending(frame) ==
    LET n == nodes[frame.node] IN
    CASE n.kind = "Operator" ->
            IF frame.i < Len(n.operand) THEN n.operand[frame.i + 1] ELSE 0
      [] n.kind = "TernaryIf" ->
            IF frame.i = 0 THEN n.operand[1] ELSE frame.br
      [] OTHER -> 0

\* result[key] for a key that has no NodeResult yet
Descend ==
    /\ Running
    /\ Pending(top) # 0
    /\ ~InMemo(Pending(top))
    /\ process(Pending(top), pc)
    /\ UNCHANGED <<graphVars, otherVars, calls, sandboxes, onDemand>>

(***************************************************************************)
(* evaluate of each node class (core/graph.py).                            *)
(***************************************************************************)
EvalConstant ==
    /\ Running
    /\ nodes[top.node].kind = "Constant"
    /\ LET nr1 == SetSuccess(processed[top.node], 1).nr
           nr2 == SetScore(nr1, nodes[top.node].full_score).nr
       IN  Return(top.node, nr2)
    /\ UNCHANGED <<graphVars, otherVars, evalCount, calls, sandboxes, onDemand>>

\* subscores = [ result[op_node].score for op_node in self.operand ]
OperatorStep ==
    /\ Running
    /\ nodes[top.node].kind = "Operator"
    /\ Pending(top) # 0
    /\ InMemo(Pending(top))
    /\ stack' = SetTop([top EXCEPT !.i = @ + 1,
                         !.sub = Append(@, processed[Pending(top)].score)])
    /\ UNCHANGED <<graphVars, otherVars, pc, processed, final_score, error,
                   evalCount, calls, sandboxes, onDemand>>

OperatorFinish ==
    /\ Running
    /\ nodes[top.node].kind = "Operator"
    /\ Pending(top) = 0
    /\ LET nr1 == SetSuccess(processed[top.node], 1).nr
           val == ApplyOp(nodes[top.node].op, top.sub)
       IN  IF val.err # NoError
           THEN Raise(top.node, nr1, val.err)
           ELSE Return(top.node, SetScore(nr1, val.v).nr)
    /\ UNCHANGED <<graphVars, otherVars, evalCount, calls, sandboxes, onDemand>>

\* a condition that looks at the success flag
CondBySuccess(nr) == nr.success # 0

\* if result[self.if_expr].score:
CondHolds(nr) == nr.score # 0

TernaryCond ==
    /\ Running
    /\ nodes[top.node].kind = "TernaryIf"
    /\ top.i = 0
    /\ InMemo(if_expr(top.node))
    /\ stack' = SetTop([top EXCEPT !.i = 1,
                         !.br = IF CondHolds(processed[if_expr(top.node)])
                                THEN then_expr(top.node)
                                ELSE else_expr(top.node)])
    /\ UNCHANGED <<graphVars, otherVars, pc, processed, final_score, error,
                   evalCount, calls, sandboxes, onDemand>>

TernaryFinish ==
    /\ Running
    /\ nodes[top.node].kind = "TernaryIf"
    /\ top.i = 1
    /\ InMemo(top.br)
    /\ LET nr1 == SetSuccess(processed[top.node], processed[top.br].success).nr
           nr2 == SetScore(nr1, processed[top.br].score).nr
       IN  Return(top.node, nr2)
    /\ UNCHANGED <<graphVars, otherVars, evalCount, calls, sandboxes, onDemand>>

EvalLottery ==
    /\ Running
    /\ nodes[top.node].kind = "Lottery"
    /\ \E sample \in 0..(Samples - 1) :
          LET nr0 == processed[top.node]
              nr2 == IF sample < nodes[top.node].threshold
                     THEN SetScore(SetSuccess(nr0, 1).nr,
                                   nodes[top.node].full_score).nr
                     ELSE nr0
          IN  Return(top.node, SetMessage(nr2, "sample", sample))
    /\ UNCHANGED <<graphVars, otherVars, evalCount, calls, sandboxes, onDemand>>

EvalAnswerOnlyTest ==
    /\ Running
    /\ nodes[top.node].kind = "AnswerOnlyTest"
    /\ LET n == nodes[top.node]
           nr0 == processed[top.node]
       IN  IF n.key \notin DOMAIN data
           THEN /\ Return(top.node,
                          SetMessage(nr0, "lookup_error", "answer not provided"))
                /\ UNCHANGED calls
           ELSE LET answer == data[n.key].v
                    nr2 == IF Holds(n.predicate, answer)
                           THEN SetScore(SetSuccess(nr0, 1).nr, n.full_score).nr
                           ELSE nr0
                IN  /\ Return(top.node, SetMessage(nr2, "answer", answer))
                    /\ calls' = calls \cup {<<top.node, "predicate">>}
    /\ UNCHANGED <<graphVars, otherVars, evalCount, sandboxes, onDemand>>

\* what program(self.test_input) does: it raises, or returns an output
Outcomes == {[raises |-> TRUE, output |-> 0]} \cup
            {[raises |-> FALSE, output |-> o] : o \in 1..MaxAnswer}

EvalProgramTest ==
    /\ Running
    /\ nodes[top.node].kind = "ProgramTest"
    /\ LET n == nodes[top.node]
           nr0 == processed[top.node]
       IN  IF n.key \notin DOMAIN data
           THEN /\ Return(top.node,
                          SetMessage(nr0, "lookup_error", "program not provided"))
                /\ UNCHANGED calls
           ELSE \E out \in Outcomes :
                  IF out.raises
                  THEN /\ IF BareExcept("Exception")
                          THEN Return(top.node, SetMessage(nr0, "runtime_error",
                                                           "runtime error"))
                          ELSE Raise(top.node, nr0, "Exception")
                       /\ calls' = calls \cup {<<top.node, "program">>,
                                               <<top.node, "raised">>}
                  ELSE LET nr2 == IF Holds(n.predicate, out.output)
                                  THEN SetScore(SetSuccess(nr0, 1).nr,
                                                n.full_score).nr
                                  ELSE nr0
                       IN  /\ Return(top.node,
                                     SetMessage(nr2, "output", out.output))
                           /\ calls' = calls \cup {<<top.node, "program">>,
                                                   <<top.node, "predicate">>}
    /\ UNCHANGED <<graphVars, otherVars, evalCount, sandboxes, onDemand>>

(***************************************************************************)
(* FileProgramTestNode.evaluate (files/graph.py).                          *)
(***************************************************************************)
\* with TemporarySandbox() as sandbox:
FileAcquire ==
    /\ Running
    /\ nodes[top.node].kind = "FileProgramTest"
    /\ top.i = 0
    /\ sandboxes' = Append(sandboxes, TemporarySandbox(top.node))
    /\ stack' = SetTop([top EXCEPT !.i = 1, !.sandbox = Len(sandboxes) + 1])
    /\ UNCHANGED <<graphVars, otherVars, pc, processed, final_score, error,
                   evalCount, calls, onDemand>>

\* a with block that is left without cleaning up
ExitSandboxSkip(sbs, id) == sbs

\* leaving the with block: TemporarySandbox.__exit__
ExitSandbox(sbs, id) == [sbs EXCEPT ![id] = clean_up(@)]

\* program = data[self.program_id], then the staging of the input file
FileLookup ==
    /\ Running
    /\ nodes[top.node].kind = "FileProgramTest"
    /\ top.i = 1
    /\ IF nodes[top.node].key \notin DOMAIN data
       THEN /\ Return(top.node, SetMessage(processed[top.node], "lookup_error",
                                           "program not provided"))
            /\ sandboxes' = ExitSandbox(sandboxes, top.sandbox)
            /\ UNCHANGED evalCount
       ELSE /\ sandboxes' = [sandboxes EXCEPT
                                ![top.sandbox] = copy_file(@, "input.txt")]
            /\ stack' = SetTop([top EXCEPT !.i = 2])
            /\ UNCHANGED <<pc, processed, final_score, error,
                           evalCount>>
    /\ UNCHANGED <<graphVars, otherVars, calls, onDemand>>

\* the run of an external executable takes longer than the node's time_limit
Overtime(node, beh) ==
    IF data[nodes[node].key].type = "Executable"
          /\ beh.duration > nodes[node].time_limit
    THEN {<<node, "overtime">>} ELSE {}

\* program(input_fname, output_fname).  An Executable works in a sandbox of
\* its own, which it leaves before it returns or raises.
FileExecute ==
    /\ Running
    /\ nodes[top.node].kind = "FileProgramTest"
    /\ top.i = 2
    /\ \E beh \in Behaviours :
          LET program == data[nodes[top.node].key]
              err == CallProgram(program, beh)
              inner == IF program.type = "Executable"
                       THEN <<clean_up(copy_file(TemporarySandbox(top.node),
                                                 "input.txt"))>>
                       ELSE <<>>
          IN  IF err # NoError
              THEN /\ IF BareExcept(err)
                      THEN Return(top.node,
                                  SetMessage(processed[top.node],
                                             "runtime_error", "runtime error"))
                      ELSE Raise(top.node, processed[top.node], err)
                   /\ sandboxes' = ExitSandbox(sandboxes, top.sandbox) \o inner
                   /\ calls' = calls \cup {<<top.node, "program">>,
                                           <<top.node, "raised">>}
                                     \cup Overtime(top.node, beh)
              ELSE /\ sandboxes' = [sandboxes EXCEPT ![top.sandbox] =
                                       copy_file(@, "output.txt")] \o inner
                   /\ stack' = SetTop([top EXCEPT !.i = 3])
                   /\ calls' = calls \cup {<<top.node, "program">>}
                                     \cup Overtime(top.node, beh)
                   /\ UNCHANGED <<pc, processed, final_score, error>>
    /\ UNCHANGED <<graphVars, otherVars, evalCount, onDemand>>

\* the staging of the solution file and the call
\* self.checker(result[self], self.full_score, input_fname, output_fname,
\*              solution_fname), whose value is dropped
FileCheck ==
    /\ Running
    /\ nodes[top.node].kind = "FileProgramTest"
    /\ top.i = 3
    /\ \E same \in BOOLEAN :
          LET verdict == BaseChecker(<<"result[self]",
                                       nodes[top.node].full_score, "input.txt",
                                       "output.txt", "solution.txt">>, same)
          IN  /\ IF verdict.err # NoError
                 THEN Raise(top.node, processed[top.node], verdict.err)
                 ELSE Return(top.node, processed[top.node])
              \* "same": the output file agrees with the solution file
              /\ calls' = calls \cup {<<top.node, "checker">>}
                                \cup (IF same THEN {<<top.node, "same">>}
                                      ELSE {})
    /\ sandboxes' = ExitSandbox([sandboxes EXCEPT ![top.sandbox] =
                                    copy_file(@, "solution.txt")], top.sandbox)
    /\ UNCHANGED <<graphVars, otherVars, evalCount, onDemand>>

(***************************************************************************)
(* What the holder of a constructed Result does with it.                   *)
(***************************************************************************)
\* the nodes a client holds: the root and the tests it composed
ClientNodes == {root} \cup {args[i].v : i \in 1..Len(args)}

\* values a client tries to store in a NodeResult
ClientValues == {1}

\* result[key]
ClientLookup(key) ==
    /\ pc = "done"
    /\ IF ~InMemo(key)
       THEN /\ onDemand < MaxOnDemand
            /\ onDemand' = onDemand + 1
            /\ process(key, "lookup")
       ELSE /\ error' = NoError
            /\ UNCHANGED <<pc, stack, processed, final_score, evalCount,
                           onDemand>>
    /\ UNCHANGED <<graphVars, otherVars, calls, sandboxes>>

\* result[key].success = value
ClientSetSuccess(key, value) ==
    /\ pc = "done"
    /\ InMemo(key)
    /\ LET set == SetSuccess(processed[key], value) IN
       /\ processed' = [processed EXCEPT ![key] = set.nr]
       /\ error' = set.err
    /\ UNCHANGED <<graphVars, otherVars, pc, stack, final_score, evalCount, calls,
                   sandboxes, onDemand>>

\* result[key].score = value
ClientSetScore(key, value) ==
    /\ pc = "done"
    /\ InMemo(key)
    /\ LET set == SetScore(processed[key], value) IN
       /\ processed' = [processed EXCEPT ![key] = set.nr]
       /\ error' = set.err
    /\ UNCHANGED <<graphVars, otherVars, pc, stack, final_score, evalCount, calls,
                   sandboxes, onDemand>>

Next ==
    \/ ResultInit
    \/ Descend
    \/ EvalConstant
    \/ OperatorStep
    \/ OperatorFinish
    \/ TernaryCond
    \/ TernaryFinish
    \/ EvalLottery
    \/ EvalAnswerOnlyTest
    \/ EvalProgramTest
    \/ FileAcquire
    \/ FileLookup
    \/ FileExecute
    \/ FileCheck
    \/ \E key \in ClientNodes : ClientLookup(key)
    \/ \E key \in ClientNodes, value \in ClientValues :
          ClientSetSuccess(key, value)
    \/ \E key \in ClientNodes, value \in ClientValues :
          ClientSetScore(key, value)

Spec == Init /\ [][Next]_vars

(***************************************************************************)
(* Construction of operator nodes on its own: OperatorNode(op, *args) and  *)
(* the overloaded operators of BaseNode, over nodes already built.         *)
(***************************************************************************)
\* most arguments handed to OperatorNode
MaxArgs == 3

\* the nodes that exist before the call
BaseHeap == <<ConstantNode(1), LotteryNode(2, 1)>>
ArgValues == {NodeVal(1), NodeVal(2), NumVal(0), NumVal(2), OtherVal}

\* self + other and other + self
add(heap, self, other) == OperatorNode(heap, "add", <<NodeVal(self), other>>)
radd(heap, self, other) == OperatorNode(heap, "add", <<other, NodeVal(self)>>)

\* self << other and other << self: the methods are declared with self as
\* their only parameter, so the call itself raises and the body never runs
lshift(heap, self, other) == [heap |-> heap, id |-> 0, err |-> "TypeError"]
rlshift(heap, self, other) == [heap |-> heap, id |-> 0, err |-> "TypeError"]

\* for OperatorNode, values are the arguments after op; for the overloaded
\* operators, values are <<self, other>>
ConstructorCalls ==
    {[fn |-> "OperatorNode", op |-> o, values |-> v] :
        o \in {"sum", "max"},
        v \in UNION {[1..k -> ArgValues] : k \in 0..MaxArgs}}
    \cup {[fn |-> f, op |-> "add", values |-> <<NodeVal(n), x>>] :
             f \in {"add", "radd"}, n \in 1..Len(BaseHeap), x \in ArgValues}
    \cup {[fn |-> f, op |-> "lshift", values |-> <<NodeVal(n), x>>] :
             f \in {"lshift", "rlshift"}, n \in 1..Len(BaseHeap), x \in ArgValues}

InitConstruct ==
    /\ ResultIdle
    /\ call \in ConstructorCalls
    /\ ret = NoReturn
    /\ NoOthers

Returned(value) == [status |-> "done", value |-> value]

CallOperatorNode ==
    /\ call.fn = "OperatorNode"
    /\ ret = NoReturn
    /\ ret' = Returned(OperatorNode(BaseHeap, call.op, call.values))
    /\ UNCHANGED calleeVars

CallAdd ==
    /\ call.fn = "add"
    /\ ret = NoReturn
    /\ ret' = Returned(add(BaseHeap, call.values[1].v, call.values[2]))
    /\ UNCHANGED calleeVars

CallRadd ==
    /\ call.fn = "radd"
    /\ ret = NoReturn
    /\ ret' = Returned(radd(BaseHeap, call.values[1].v, call.values[2]))
    /\ UNCHANGED calleeVars

CallLshift ==
    /\ call.fn = "lshift"
    /\ ret = NoReturn
    /\ ret' = Returned(lshift(BaseHeap, call.values[1].v, call.values[2]))
    /\ UNCHANGED calleeVars

CallRlshift ==
    /\ call.fn = "rlshift"
    /\ ret = NoReturn
    /\ ret' = Returned(rlshift(BaseHeap, call.values[1].v, call.values[2]))
    /\ UNCHANGED calleeVars

NextConstruct ==
    CallOperatorNode \/ CallAdd \/ CallRadd \/ CallLshift \/ CallRlshift

SpecConstruct == InitConstruct /\ [][NextConstruct]_vars

(***************************************************************************)
(* WordChecker.check_answer on its own.  A file is the sequence of its     *)
(* characters; a word, and the newline token, is a sequence of characters. *)
(***************************************************************************)
\* longest output file and longest solution file
MaxOutput == 5
MaxSolution == 3

\* words differ by their length: a, aa, ...
Chars == {"a", " ", "\n"}
\* what str.split() takes as a separator
Spaces == {" ", "\n"}
IsSpace(c) == c \in Spaces
Texts(n) == UNION {[1..k -> Chars] : k \in 0..n}

\* index of the first character of text that is one of chars, 0 if none
First(text, chars) ==
    IF \E i \in 1..Len(text) : text[i] \in chars
    THEN CHOOSE i \in 1..Len(text) :
            text[i] \in chars /\ \A j \in 1..(i - 1) : text[j] \notin chars
    ELSE 0

\* for line in fobj: each line keeps its newline, the last one may lack it
RECURSIVE lines(_)
lines(text) ==
    LET k == First(text, {"\n"})
    IN  IF text = <<>> THEN <<>>
        ELSE IF k = 0 THEN <<text>>
        ELSE <<SubSeq(text, 1, k)>> \o lines(SubSeq(text, k + 1, Len(text)))

\* line.split()
RECURSIVE split(_)
split(line) ==
    LET k == First(line, Spaces)
    IN  IF line = <<>> THEN <<>>
        ELSE IF k = 1 THEN split(Tail(line))
        ELSE IF k = 0 THEN <<line>>
        ELSE <<SubSeq(line, 1, k - 1)>> \o split(SubSeq(line, k, Len(line)))

\* the words of each line, then '\n'
RECURSIVE stream_of(_)
stream_of(ls) ==
    IF ls = <<>> THEN <<>>
    ELSE split(Head(ls)) \o <<(<<"\n">>)>> \o stream_of(Tail(ls))

word_stream(text) == stream_of(lines(text))

\* what zip_longest puts where the shorter stream has ended
FillValue == <<>>

\* a pairing that stops at the end of the shorter stream, as zip does
zip_shortest(a, b) ==
    [i \in 1..(IF Len(a) < Len(b) THEN Len(a) ELSE Len(b)) |-> <<a[i], b[i]>>]

zip_longest(a, b) ==
    [i \in 1..(IF Len(a) > Len(b) THEN Len(a) ELSE Len(b)) |->
        <<IF i <= Len(a) THEN a[i] ELSE FillValue,
          IF i <= Len(b) THEN b[i] ELSE FillValue>>]

check_answer(output, solution) ==
    LET pairs == zip_longest(word_stream(output), word_stream(solution))
    IN  \A i \in 1..Len(pairs) : pairs[i][1] = pairs[i][2]

InitWordChecker ==
    /\ ResultIdle
    /\ call \in {[fn |-> "check_answer", output |-> o, solution |-> x] :
                    o \in Texts(MaxOutput), x \in Texts(MaxSolution)}
    /\ ret = NoReturn
    /\ NoOthers

CallWordChecker ==
    /\ call.fn = "check_answer"
    /\ ret = NoReturn
    /\ ret' = Returned(check_answer(call.output, call.solution))
    /\ UNCHANGED calleeVars

NextWordChecker == CallWordChecker

SpecWordChecker == InitWordChecker /\ [][NextWordChecker]_vars

(***************************************************************************)
(* ExternalChecker.__call__ on its own.  The checker process is given by   *)
(* the lines it prints on its standard output.                             *)
(***************************************************************************)
\* most lines the checker process prints
MaxPrinted == 3

Raised(exception) == [status |-> "raised", value |-> exception]

PrintedTokens == {"0", "1", "10", "abc"}
Printed == UNION {[1..k -> PrintedTokens] : k \in 0..MaxPrinted}

\* the full score as the caller passes it: a number, or its text
FullScores == {[type |-> "int", v |-> 10], [type |-> "str", v |-> 10]}

\* subprocess.run(argv, stdout=PIPE): every member of argv must be a string
\* or a path; the standard output comes back as bytes
subprocess_run(argv, printed) ==
    IF \E i \in 1..Len(argv) : argv[i].type \notin {"str", "bytes", "path"}
    THEN [err |-> "TypeError", stdout |-> <<>>, type |-> "None"]
    ELSE [err |-> NoError, stdout |-> printed, type |-> "bytes"]

\* stdout.split('\n', 2) with a separator of type sep: the first two lines
\* and the rest; a bytes object is split by bytes only
split_lines(stdout, type, sep) ==
    IF type # sep THEN [err |-> "TypeError", tokens |-> <<>>]
    ELSE [err |-> NoError,
          tokens |-> IF stdout = <<>> THEN <<"">> ELSE stdout \o <<"">>]

IsNumeric(token) == token \in {"0", "1", "10"}
Decimal(token) == CASE token = "0" -> 0 [] token = "1" -> 1 [] token = "10" -> 10

ExternalChecker(full_score, printed) ==
    LET argv == <<[type |-> "str"], full_score, [type |-> "str"],
                  [type |-> "str"], [type |-> "str"]>>
        result == subprocess_run(argv, printed)
        parts == split_lines(result.stdout, result.type, "str")
        tokens == parts.tokens
    IN  IF result.err # NoError THEN Raised(result.err)
        ELSE IF parts.err # NoError THEN Raised(parts.err)
        ELSE IF ~IsNumeric(tokens[1]) THEN Raised("InvalidOperation")
        ELSE IF Len(tokens) < 2 THEN Raised("IndexError")
        ELSE IF ~IsNumeric(tokens[2]) THEN Raised("InvalidOperation")
        ELSE Returned(<<Decimal(tokens[1]), Decimal(tokens[2])>>)

InitExternalChecker ==
    /\ ResultIdle
    /\ call \in {[fn |-> "ExternalChecker", full_score |-> f, printed |-> x] :
                    f \in FullScores, x \in Printed}
    /\ ret = NoReturn
    /\ NoOthers

CallExternalChecker ==
    /\ call.fn = "ExternalChecker"
    /\ ret = NoReturn
    /\ ret' = ExternalChecker(call.full_score, call.printed)
    /\ UNCHANGED calleeVars

NextExternalChecker == CallExternalChecker

SpecExternalChecker == InitExternalChecker /\ [][NextExternalChecker]_vars

(***************************************************************************)
(* Two Results over one graph.  One of them is the Result the actions      *)
(* above work on; the other one waits in `second` until control passes to *)
(* it, at any point of a construction or between lookups.                  *)
(***************************************************************************)
\* leaves of the graph the two Results share
SharedLeaves == 2

SharedShapes == {"chains", "sum"}
SharedKinds == {"Constant", "Lottery", "AnswerOnlyTest"}

\* Result(root, data) about to be constructed
NewResult(d) ==
    [data |-> d, pc |-> "new", stack |-> <<>>, processed |-> <<>>,
     final_score |-> None, error |-> NoError,
     evalCount |-> [n \in 1..Len(nodes) |-> 0], onDemand |-> 0]

\* the fields of the Result under evaluation
ThisResult ==
    [data |-> data, pc |-> pc, stack |-> stack, processed |-> processed,
     final_score |-> final_score, error |-> error, evalCount |-> evalCount,
     onDemand |-> onDemand]

\* a memo table that every Result shares, as a class attribute would be
ProcessedNodesShared(result, current) == current

\* result._processed_nodes, the dictionary made by result's own __init__;
\* current is the table of the Result under evaluation
ProcessedNodes(result, current) == result.processed

InitShared ==
    /\ \E s \in SharedShapes :
       \E kinds \in LeafChoices(s, SharedLeaves) :
          LET g == Build(s, kinds) IN
          /\ \A i \in 1..Len(kinds) : kinds[i] \in SharedKinds
          /\ shape = s
          /\ args = LeafArgs(kinds)
          /\ nodes = g.heap
          /\ root = g.id
          /\ data \in DataFor(kinds)
          /\ \E d \in DataFor(kinds) : second = NewResult(d)
    /\ pc = "new"
    /\ stack = <<>>
    /\ processed = <<>>
    /\ final_score = None
    /\ error = NoError
    /\ evalCount = [n \in 1..Len(nodes) |-> 0]
    /\ calls = {}
    /\ sandboxes = <<>>
    /\ onDemand = 0
    /\ call = NoCall
    /\ ret = NoReturn
    /\ session = NoSession
    /\ history = NoHistory
    /\ instance = NoInstance

\* control passes from the Result under evaluation to the other one
SwitchResult ==
    /\ second # NoResult
    /\ second' = ThisResult
    /\ data' = second.data
    /\ pc' = second.pc
    /\ stack' = second.stack
    /\ processed' = ProcessedNodes(second, processed)
    /\ final_score' = second.final_score
    /\ error' = second.error
    /\ evalCount' = second.evalCount
    /\ onDemand' = second.onDemand
    /\ UNCHANGED <<nodes, root, shape, args, calls, sandboxes, call, ret,
                   session, history, instance>>

NextShared ==
    \/ ResultInit
    \/ Descend
    \/ EvalConstant
    \/ OperatorStep
    \/ OperatorFinish
    \/ TernaryCond
    \/ TernaryFinish
    \/ EvalLottery
    \/ EvalAnswerOnlyTest
    \/ \E key \in ClientNodes : ClientLookup(key)
    \/ SwitchResult

SpecShared == InitShared /\ [][NextShared]_vars

(***************************************************************************)
(* Construction of the file-based test nodes on its own.  A path is        *)
(* absolute or relative, and names nothing, a regular file or a directory. *)
(***************************************************************************)
Paths == [absolute : BOOLEAN, names : {"nothing", "file", "directory"}]

\* pathlib.Path.exists() and os.path.exists(): true of a directory as well
exists(path) == path.names # "nothing"

\* sanitize_file(path), with absolute_only left at True
sanitize_file(path) ==
    IF ~path.absolute THEN Raised("ValueError")
    ELSE IF ~exists(path) THEN Raised("FileNotFoundError")
    ELSE Returned(path)

\* time_limit = TypedDataDescriptor(Number, lambda x: x > 0)
SetTimeLimit(value) ==
    IF value > 0 THEN Returned(value) ELSE Raised("ValueError")

\* FileProgramTestNode(full_score, program_id, checker, input_fname,
\* solution_fname, time_limit)
FileProgramTestNodeInit(full_score, program_id, input_fname, solution_fname, time_limit) ==
    LET input == sanitize_file(input_fname)
        solution == sanitize_file(solution_fname)
        limit == SetTimeLimit(time_limit)
    IN  IF input.status = "raised" THEN input
        ELSE IF solution.status = "raised" THEN solution
        ELSE IF limit.status = "raised" THEN limit
        ELSE Returned(FileProgramTestNode(full_score, program_id, time_limit))

\* EvaluateProgramNode(score, program_id, check_script, input_fname,
\* solution_fname) of prog/graph.py, which asserts after the assignments
EvaluateProgramNodeInit(score, program_id, input_fname, solution_fname) ==
    IF ~(input_fname.absolute /\ exists(input_fname))
    THEN Raised("AssertionError")
    ELSE IF ~(solution_fname.absolute /\ exists(solution_fname))
    THEN Raised("AssertionError")
    ELSE Returned([BlankNode EXCEPT !.kind = "EvaluateProgram",
                                    !.full_score = score, !.key = program_id])

TimeLimits == {0, ShortTimeLimit, DefaultTimeLimit}

InitFileNode ==
    /\ ResultIdle
    /\ call \in {[fn |-> f, input_fname |-> i, solution_fname |-> x,
                  time_limit |-> t] :
                    f \in {"FileProgramTestNode", "EvaluateProgramNode"},
                    i \in Paths, x \in Paths, t \in TimeLimits}
    /\ ret = NoReturn
    /\ NoOthers

CallFileProgramTestNode ==
    /\ call.fn = "FileProgramTestNode"
    /\ ret = NoReturn
    /\ ret' = FileProgramTestNodeInit(1, ProgramKey, call.input_fname,
                                      call.solution_fname, call.time_limit)
    /\ UNCHANGED calleeVars

CallEvaluateProgramNode ==
    /\ call.fn = "EvaluateProgramNode"
    /\ ret = NoReturn
    /\ ret' = EvaluateProgramNodeInit(1, ProgramKey, call.input_fname,
                                      call.solution_fname)
    /\ UNCHANGED calleeVars

NextFileNode == CallFileProgramTestNode \/ CallEvaluateProgramNode

SpecFileNode == InitFileNode /\ [][NextFileNode]_vars

(***************************************************************************)
(* Sessions of an exercise framework (backbones/sessions.py) whose         *)
(* resume_session is a StagesSequence (backbones/stages.py).               *)
(***************************************************************************)
\* most stages of a framework, choices of a question, and calls of
\* __next__ or submit on one session
MaxStages == 2
NumChoices == 2
MaxResumes == 3

\* public data and summaries; choices tells how the choices of a question
\* are held: in a tuple, as the framework stores them, or in a list
Datum(kind, status, score) ==
    [kind |-> kind, status |-> status, score |-> score, choices |-> "none"]
NoData == Datum("none", "", 0)
Question == [Datum("question", "", 0) EXCEPT !.choices = "tuple"]
StageData == {Datum("data", "", v) : v \in 1..2}

\* a response: nothing, or the keyword argument selected_choice
EmptyResponse == [kw |-> "none", value |-> 0]
Selected(choice) == [kw |-> "selected_choice", value |-> choice]
Responses == {EmptyResponse} \cup {Selected(c) : c \in 0..(NumChoices - 1)}

\* MultipleChoicesFramework, and frameworks whose stages or states are any
\* methods; dispatch names the decorator of resume_session:
\* backbones.stages.StagesSequence, utils.dispatches.StageSequence and
\* StateMachine, backbone.stages.linear_stages
MultipleChoicesFramework(answer, score) ==
    [name |-> "MultipleChoices", dispatch |-> "StagesSequence", stages |-> 2,
     answer |-> answer, score |-> score]
StagedFramework(n) ==
    [name |-> "Staged", dispatch |-> "StagesSequence", stages |-> n,
     answer |-> 0, score |-> 0]
DispatchedFramework(dispatch, n) ==
    [name |-> "Staged", dispatch |-> dispatch, stages |-> n, answer |-> 0,
     score |-> 0]
Frameworks ==
    {MultipleChoicesFramework(a, 10) : a \in 0..(NumChoices - 1)}
    \cup {StagedFramework(n) : n \in 1..MaxStages}
    \cup {DispatchedFramework(d, n) :
            d \in {"StageSequence", "linear_stages", "StateMachine"},
            n \in 1..MaxStages}

\* Session(framework): has holds the names of the attributes that are set
Session(framework) ==
    [framework |-> framework, has |-> {}, public |-> NoData,
     summary |-> NoData, stage_counter |-> 0, state_label |-> "$start",
     selected_choice |-> 0, prepared |-> EmptyResponse]

\* hasattr(self, "_summary"), taken for hasattr(self, "_public")
has_finished_by_public(s) == "_public" \in s.has

has_started(s) == "_public" \in s.has
has_finished(s) == "_summary" \in s.has

public_data(s) ==
    IF has_started(s) THEN Returned(s.public) ELSE Raised("AttributeError")
summary_data(s) ==
    IF has_finished(s) THEN Returned(s.summary) ELSE Raised("AttributeError")

_clear_prepared(s) == [s EXCEPT !.prepared = EmptyResponse]

\* raise StopIteration(value)
Stopped(value) == [status |-> "stopped", value |-> value]

\* the labels of a state machine of n states: '$start' and the index 0 for
\* the first method, a name and an index for every added state (an index is
\* written as its numeral)
StateName(i) == "state" \o ToString(i)
_methods(n) ==
    {"$start", ToString(0)}
    \cup {StateName(i) : i \in 1..(n - 1)}
    \cup {ToString(i) : i \in 1..(n - 1)}
\* what a state method may name as the next state
NextLabels(n) == _methods(n) \cup {"$self", "$end", "bogus"}

\* what a stage or state method does with a response: it returns
\* (increment, result) or (label, result), raises exc, or ends the session
\* early with StopIteration(result)
StageReturns(inc, result) ==
    [type |-> "return", inc |-> inc, label |-> "", result |-> result,
     exc |-> NoError]
StateReturns(label, result) ==
    [type |-> "return", inc |-> FALSE, label |-> label, result |-> result,
     exc |-> NoError]
StageRaises(exc) ==
    [type |-> "raise", inc |-> FALSE, label |-> "", result |-> NoData,
     exc |-> exc]
StageStops(result) ==
    [type |-> "stop", inc |-> FALSE, label |-> "", result |-> result,
     exc |-> "StopIteration"]
\* no method was called
NoOutcome ==
    [type |-> "none", inc |-> FALSE, label |-> "", result |-> NoData,
     exc |-> NoError]

\* a _check_answer that gives the score to a wrong choice
_check_answer_inverted(framework, selected_choice) ==
    LET is_correct == selected_choice # framework.answer IN
    StageReturns(TRUE,
        Datum("report", IF is_correct THEN "correct" ELSE "incorrect",
              IF is_correct THEN framework.score ELSE 0))

\* MultipleChoicesFramework._check_answer
_check_answer(framework, selected_choice) ==
    LET is_correct == selected_choice = framework.answer IN
    StageReturns(TRUE,
        Datum("report", IF is_correct THEN "correct" ELSE "incorrect",
              IF is_correct THEN framework.score ELSE 0))

StageOutcomes(framework, stage, response) ==
    IF framework.name = "MultipleChoices"
    THEN IF stage = 0
         THEN \* resume_session(self, session)
              IF response # EmptyResponse THEN {StageRaises("TypeError")}
              ELSE {StageReturns(TRUE, Question)}
         ELSE \* _check_answer(self, session, *, selected_choice)
              IF response.kw # "selected_choice"
              THEN {StageRaises("TypeError")}
              ELSE {_check_answer(framework, response.value)}
    ELSE IF framework.dispatch = "StateMachine"
    THEN {StateReturns(label, Datum("data", "", 1)) :
            label \in NextLabels(framework.stages)}
         \cup {StageRaises("TypeError"), StageStops(Datum("data", "", 2))}
    ELSE {StageReturns(inc, d) : inc \in BOOLEAN, d \in StageData}
         \cup {StageRaises("TypeError"), StageStops(Datum("data", "", 2))}

\* the exception that leaves a method that did not return
Thrown(o) == IF o.type = "stop" THEN Stopped(o.result) ELSE Raised(o.exc)

\* what a dispatcher hands back: the session, what it returned or raised,
\* the stage or state method it called (none: <<>>) and what that did
Dispatched(s, out, ran, did) ==
    [session |-> s, out |-> out, ran |-> ran, did |-> did]

\* StagesSequence.get_current_stage: the counter is set on the session
get_current_stage(s) == [s EXCEPT !.has = @ \cup {"_stage_counter"}]

\* StagesSequence.__call__ of backbones/stages.py, where the current stage
\* method does o
StagesSequence(s, o) ==
    LET s1 == get_current_stage(s)
        s2 == [s1 EXCEPT
                 !.stage_counter = @ + (IF o.inc THEN 1 ELSE 0),
                 !.has = IF s.framework.name = "MultipleChoices"
                            /\ s1.stage_counter = 1
                         THEN @ \cup {"selected_choice"} ELSE @,
                 !.selected_choice =
                     IF s.framework.name = "MultipleChoices"
                        /\ s1.stage_counter = 1
                     THEN s.prepared.value ELSE @]
        ran == <<ToString(s1.stage_counter)>>
    IN  IF s1.stage_counter >= s.framework.stages
        THEN Dispatched(s1, Raised("AttributeError"), <<>>, NoOutcome)
        ELSE IF o.type # "return"
        THEN Dispatched(s1, Thrown(o), ran, o)
        ELSE IF s2.stage_counter = s.framework.stages
        THEN Dispatched(s2, Stopped(o.result), ran, o)
        ELSE Dispatched(s2, Returned(o.result), ran, o)

\* linear_stages.__call__ of backbone/stages.py
linear_stages(s, o) ==
    LET current_stage == s.stage_counter
        s2 == [s EXCEPT !.stage_counter =
                            current_stage + (IF o.inc THEN 1 ELSE 0),
                        !.has = @ \cup {"_stage_counter"}]
        ran == <<ToString(current_stage)>>
    IN  IF current_stage >= s.framework.stages
        THEN Dispatched(s, Raised("IndexError"), <<>>, NoOutcome)
        ELSE IF o.type # "return"
        THEN Dispatched(s, Thrown(o), ran, o)
        ELSE IF s2.stage_counter = s.framework.stages
        THEN Dispatched(s2, Stopped(o.result), ran, o)
        ELSE Dispatched(s2, Returned(o.result), ran, o)

\* get_current_phase of StageSequence and of StateMachine
\* (utils/dispatches.py): the counter or the label is set on the session
get_current_phase(s) ==
    IF s.framework.dispatch = "StateMachine"
    THEN LET s1 == [s EXCEPT !.has = @ \cup {"_state_label"}] IN
         IF s1.state_label \in _methods(s.framework.stages)
         THEN Dispatched(s1, Returned(NoData), <<>>, NoOutcome)
         ELSE IF s1.state_label = "$end"
         THEN Dispatched(s1, Raised("AttributeError"), <<>>, NoOutcome)
         ELSE Dispatched(s1, Raised("KeyError"), <<>>, NoOutcome)
    ELSE LET s1 == [s EXCEPT !.has = @ \cup {"_stage_counter"}] IN
         IF s1.stage_counter < s.framework.stages
         THEN Dispatched(s1, Returned(NoData), <<>>, NoOutcome)
         ELSE IF s1.stage_counter = s.framework.stages
         THEN Dispatched(s1, Raised("AttributeError"), <<>>, NoOutcome)
         ELSE Dispatched(s1, Raised("IndexError"), <<>>, NoOutcome)

\* a StageSequence.__call__ that moves on whatever the stage returned
StageSequenceEager(s, o) ==
    LET phase == get_current_phase(s)
        s1 == phase.session
        s2 == [s1 EXCEPT !.stage_counter = @ + 1]
        ran == <<ToString(s1.stage_counter)>>
    IN  IF phase.out.status = "raised" THEN phase
        ELSE IF o.type # "return"
        THEN Dispatched(s1, Thrown(o), ran, o)
        ELSE IF s2.stage_counter = s.framework.stages
        THEN Dispatched(s2, Stopped(o.result), ran, o)
        ELSE Dispatched(s2, Returned(o.result), ran, o)

\* StageSequence.__call__ of utils/dispatches.py
StageSequence(s, o) ==
    LET phase == get_current_phase(s)
        s1 == phase.session
        s2 == [s1 EXCEPT !.stage_counter = @ + (IF o.inc THEN 1 ELSE 0)]
        ran == <<ToString(s1.stage_counter)>>
    IN  IF phase.out.status = "raised" THEN phase
        ELSE IF o.type # "return"
        THEN Dispatched(s1, Thrown(o), ran, o)
        ELSE IF s2.stage_counter = s.framework.stages
        THEN Dispatched(s2, Stopped(o.result), ran, o)
        ELSE Dispatched(s2, Returned(o.result), ran, o)

\* StateMachine.__call__ of utils/dispatches.py
StateMachine(s, o) ==
    LET phase == get_current_phase(s)
        s1 == phase.session
        s2 == [s1 EXCEPT !.state_label = o.label]
        ran == <<s1.state_label>>
    IN  IF phase.out.status = "raised" THEN phase
        ELSE IF o.type # "return"
        THEN Dispatched(s1, Thrown(o), ran, o)
        ELSE IF s2.state_label = "$end"
        THEN Dispatched(s2, Stopped(o.result), ran, o)
        ELSE IF s2.state_label \notin _methods(s.framework.stages)
        THEN Dispatched(s2, Raised("ValueError"), ran, o)
        ELSE Dispatched(s2, Returned(o.result), ran, o)

\* framework.resume_session(session, response)
resume_session(s, o) ==
    CASE s.framework.dispatch = "StagesSequence" -> StagesSequence(s, o)
      [] s.framework.dispatch = "StageSequence" -> StageSequence(s, o)
      [] s.framework.dispatch = "linear_stages" -> linear_stages(s, o)
      [] s.framework.dispatch = "StateMachine" -> StateMachine(s, o)

\* a _resume that clears the prepared responses only when resume_session
\* returns or raises StopIteration
_resume_without_finally(s, o) ==
    IF has_finished(s)
    THEN Dispatched(s, Stopped(s.summary), <<>>, NoOutcome)
    ELSE LET r == resume_session(s, o)
             cleared == _clear_prepared(r.session)
         IN  CASE r.out.status = "done" ->
                    [r EXCEPT !.session =
                        [cleared EXCEPT !.public = r.out.value,
                                        !.has = @ \cup {"_public"}]]
               [] r.out.status = "stopped" ->
                    [r EXCEPT !.session =
                        [cleared EXCEPT
                           !.public = r.out.value,
                           !.summary = r.out.value,
                           !.has = @ \cup {"_public", "_summary"}]]
               [] OTHER -> r

\* Session._resume
_resume(s, o) ==
    IF has_finished(s)
    THEN Dispatched(s, Stopped(s.summary), <<>>, NoOutcome)
    ELSE LET r == resume_session(s, o)
             cleared == _clear_prepared(r.session)
         IN  CASE r.out.status = "done" ->
                    [r EXCEPT !.session =
                        [cleared EXCEPT !.public = r.out.value,
                                        !.has = @ \cup {"_public"}]]
               [] r.out.status = "stopped" ->
                    [r EXCEPT !.session =
                        [cleared EXCEPT
                           !.public = r.out.value,
                           !.summary = r.out.value,
                           !.has = @ \cup {"_public", "_summary"}]]
               [] OTHER -> [r EXCEPT !.session = cleared]

\* _resumable_method.bind_hook, run whenever session.prepare or
\* session.submit is looked up: a resume_session that has get_current_phase
\* is asked for the current phase
bind_hook(s) ==
    IF s.framework.dispatch \in {"StageSequence", "StateMachine"}
    THEN get_current_phase(s)
    ELSE Dispatched(s, Returned(NoData), <<>>, NoOutcome)

\* a submit that resumes with the responses prepared earlier
submit_unprepared(s, response, o) ==
    LET bound == bind_hook(s) IN
    IF bound.out.status = "raised" THEN bound ELSE _resume(bound.session, o)

\* Session.prepare, Session.__next__ and Session.submit
prepare(s, response) ==
    LET bound == bind_hook(s) IN
    IF bound.out.status = "raised" THEN bound
    ELSE [bound EXCEPT !.session = [@ EXCEPT !.prepared = response]]
__next__(s, o) == _resume(s, o)
submit(s, response, o) ==
    LET bound == bind_hook(s) IN
    IF bound.out.status = "raised" THEN bound
    ELSE _resume([bound.session EXCEPT !.prepared = response], o)

\* Session.serialized_dict: __dict__ without _framework
serialized_dict(s) ==
    [has |-> s.has, public |-> s.public, summary |-> s.summary,
     stage_counter |-> s.stage_counter, state_label |-> s.state_label,
     selected_choice |-> s.selected_choice, prepared |-> s.prepared]

\* json.dumps and json.loads of public data or a summary: a tuple and a
\* list are both written as an array, and an array is read as a list
dumps(d) == [d EXCEPT !.choices = IF @ \in {"tuple", "list"} THEN "array" ELSE @]
loads(j) == [j EXCEPT !.choices = IF @ = "array" THEN "list" ELSE @]

\* utils.json._encoder_default of a framework (its class and __dict__ as
\* keyword arguments) and of a session (its framework as argument and its
\* serialized_dict)
_encoder_default(framework) ==
    [class |-> [name |-> framework.name, dispatch |-> framework.dispatch,
                stages |-> framework.stages],
     kwargs |-> [answer |-> framework.answer, score |-> framework.score]]
to_json(s) ==
    [class |-> "Session",
     args |-> <<_encoder_default(s.framework)>>,
     dict |-> [serialized_dict(s) EXCEPT !.public = dumps(@),
                                         !.summary = dumps(@)]]

\* utils.json._decoder_object_hook: cls(*args, **kwargs), then
\* __dict__.update(dict)
_decoder_object_hook(text) ==
    IF text.class = "Session"
    THEN LET f == text.args[1]
             framework ==
                 [name |-> f.class.name, dispatch |-> f.class.dispatch,
                  stages |-> f.class.stages, answer |-> f.kwargs.answer,
                  score |-> f.kwargs.score]
             o == Session(framework)
         IN  [o EXCEPT !.has = text.dict.has,
                       !.public = loads(text.dict.public),
                       !.summary = loads(text.dict.summary),
                       !.stage_counter = text.dict.stage_counter,
                       !.state_label = text.dict.state_label,
                       !.selected_choice = text.dict.selected_choice,
                       !.prepared = text.dict.prepared]
    ELSE text

\* framework.create_session()
InitSession ==
    /\ ResultIdle
    /\ call = NoCall
    /\ ret = NoReturn
    /\ second = NoResult
    /\ \E f \in Frameworks : session = Session(f)
    /\ history = NoHistory
    /\ instance = NoInstance

\* the outcomes of the stage method that a resume of s would call
CurrentOutcomes(s) ==
    StageOutcomes(s.framework, s.stage_counter, s.prepared)

\* a resume has been made; the framework has ended the session when its
\* resume_session raised StopIteration
Resumed(s, r) ==
    [resumes |-> history.resumes + 1,
     ended |-> history.ended \/ (~has_finished(s) /\ r.out.status = "stopped"),
     ran |-> r.ran,
     did |-> r.did]

\* session.prepare(response)
SessionPrepare(response) ==
    /\ call' = [fn |-> "prepare", response |-> response]
    /\ session' = prepare(session, response).session
    /\ ret' = prepare(session, response).out
    /\ UNCHANGED <<resultVars, second, history, instance>>

\* next(session)
SessionNext ==
    /\ history.resumes < MaxResumes
    /\ \E o \in CurrentOutcomes(session) :
          LET r == __next__(session, o) IN
          /\ session' = r.session
          /\ ret' = r.out
          /\ history' = Resumed(session, r)
    /\ call' = [fn |-> "__next__", response |-> session.prepared]
    /\ UNCHANGED <<resultVars, second, instance>>

\* session.submit(response)
SessionSubmit(response) ==
    /\ history.resumes < MaxResumes
    /\ LET given == [session EXCEPT !.prepared = response] IN
       \E o \in CurrentOutcomes(given) :
          LET r == submit(session, response, o) IN
          /\ session' = r.session
          /\ ret' = r.out
          /\ history' = Resumed(session, r)
    /\ call' = [fn |-> "submit", response |-> response]
    /\ UNCHANGED <<resultVars, second, instance>>

\* session.public_data
ReadPublicData ==
    /\ call' = [fn |-> "public_data", response |-> EmptyResponse]
    /\ ret' = public_data(session)
    /\ UNCHANGED <<resultVars, second, session, history, instance>>

\* session.summary_data
ReadSummaryData ==
    /\ call' = [fn |-> "summary_data", response |-> EmptyResponse]
    /\ ret' = summary_data(session)
    /\ UNCHANGED <<resultVars, second, session, history, instance>>

NextSession ==
    \/ \E response \in Responses : SessionPrepare(response)
    \/ SessionNext
    \/ \E response \in Responses : SessionSubmit(response)
    \/ ReadPublicData
    \/ ReadSummaryData

SpecSession == InitSession /\ [][NextSession]_vars

(***************************************************************************)
(* Exercise frameworks and their parameters (backbones/frameworks.py,      *)
(* backbones/parameters.py, assembled/standard/multiplechoices.py).        *)
(***************************************************************************)
\* longest sequence handed to a framework as its choices
MaxChoices == 6
\* length=5 of FiveChoicesFramework.choices
FiveChoices == 5
\* math.inf, the upper bound of a sequence without one
INF == 0 - 1

\* Python values: an int, a bool (an int of value 0 or 1), a float (v and a
\* half), a str of v characters, a tuple or a list of items
PyValue(type, v, items) == [type |-> type, v |-> v, items |-> items]
PyInt(n) == PyValue("int", n, <<>>)
PyBool(b) == PyValue("bool", IF b THEN 1 ELSE 0, <<>>)
PyFloat(n) == PyValue("float", n, <<>>)
PyStr(n) == PyValue("str", n, <<>>)
PyTuple(items) == PyValue("tuple", 0, items)
PyList(items) == PyValue("list", 0, items)

\* isinstance(value, dtype): bool is a subclass of int
isinstance(value, dtype) ==
    value.type = dtype \/ (dtype = "int" /\ value.type = "bool")

\* the parameter descriptors of the framework classes
Parameter(dtype, validators) ==
    [kind |-> "Parameter", dtype |-> dtype, validators |-> validators,
     lb_length |-> 0, ub_length |-> INF]
SequenceParameter(dtype, lb_length, ub_length) ==
    [kind |-> "SequenceParameter", dtype |-> dtype, validators |-> {},
     lb_length |-> lb_length, ub_length |-> ub_length]

FrameworkClasses == {"MultipleChoicesFramework", "FiveChoicesFramework"}
parameter_names == <<"question", "choices", "answer", "score">>

Descriptor(cls, name) ==
    CASE name = "question" -> Parameter("str", {})
      [] name = "choices" ->
            IF cls = "FiveChoicesFramework"
            THEN SequenceParameter("str", FiveChoices, FiveChoices)
            ELSE SequenceParameter("str", 0, INF)
      [] name = "answer" -> Parameter("int", {})
      [] name = "score" -> Parameter("int", {"positive_score"})

\* the validator of score
positive_score(score) == score.v > 0

\* DataTypeMixin.check_dtype and ValidatorMixin.check_with_validators: the
\* exception raised, if any
check_dtype(p, value) ==
    IF isinstance(value, p.dtype) THEN NoError ELSE "TypeError"
check_with_validators(p, value) ==
    IF "positive_score" \in p.validators /\ ~positive_score(value)
    THEN "ValueError" ELSE NoError

\* SequenceParameter.sanitize_values: tuple(values) of a sized iterable
sanitize_values(values) ==
    CASE values.type \in {"tuple", "list"} -> Returned(PyTuple(values.items))
      [] values.type = "str" ->
            Returned(PyTuple([i \in 1..values.v |-> PyStr(1)]))
      [] OTHER -> Raised("TypeError")

check_sequence_length(p, length) ==
    IF p.lb_length <= length /\ (p.ub_length = INF \/ length <= p.ub_length)
    THEN NoError ELSE "ValueError"

\* Parameter.parameter_validate and SequenceParameter.parameter_validate
parameter_validate(p, value) ==
    IF p.kind = "Parameter"
    THEN IF check_dtype(p, value) # NoError
         THEN Raised(check_dtype(p, value))
         ELSE IF check_with_validators(p, value) # NoError
         THEN Raised(check_with_validators(p, value))
         ELSE Returned(value)
    ELSE LET sane == sanitize_values(value) IN
         IF sane.status = "raised" THEN sane
         ELSE LET values == sane.value.items IN
              IF check_sequence_length(p, Len(values)) # NoError
              THEN Raised(check_sequence_length(p, Len(values)))
              ELSE IF \E index \in 1..Len(values) :
                         \/ check_dtype(p, values[index]) # NoError
                         \/ check_with_validators(p, values[index]) # NoError
              THEN Raised("ValueError")
              ELSE sane

\* a framework object: its class and its __dict__
Framework(cls, dict) == [cls |-> cls, dict |-> dict]

\* BaseParameter.__set__ without its test for an earlier assignment
__set__overwrite(obj, name, value) ==
    LET valid == parameter_validate(Descriptor(obj.cls, name), value) IN
    IF valid.status = "raised" THEN [obj |-> obj, out |-> valid]
    ELSE [obj |-> Framework(obj.cls, (name :> valid.value) @@ obj.dict),
          out |-> Returned(None)]

\* BaseParameter.__set__ and BaseParameter.__delete__
__set__(obj, name, value) ==
    IF name \in DOMAIN obj.dict
    THEN [obj |-> obj, out |-> Raised("AttributeError")]
    ELSE LET valid == parameter_validate(Descriptor(obj.cls, name), value) IN
         IF valid.status = "raised" THEN [obj |-> obj, out |-> valid]
         ELSE [obj |-> Framework(obj.cls, (name :> valid.value) @@ obj.dict),
               out |-> Returned(None)]

__delete__(obj, name) == [obj |-> obj, out |-> Raised("AttributeError")]

\* BaseFramework._validate_and_set_parameters, from the i-th name on
RECURSIVE _validate_and_set_parameters(_, _, _)
_validate_and_set_parameters(obj, parameters, i) ==
    IF i > Len(parameter_names) THEN [obj |-> obj, out |-> Returned(None)]
    ELSE LET name == parameter_names[i] IN
         IF name \notin DOMAIN parameters
         THEN [obj |-> obj, out |-> Raised("ValueError")]
         ELSE LET set == __set__(obj, name, parameters[name]) IN
              IF set.out.status = "raised" THEN set
              ELSE _validate_and_set_parameters(set.obj, parameters, i + 1)

\* a framework_validate that accepts everything
framework_validate_skipped(obj) == Returned(None)

\* MultipleChoicesFramework.framework_validate
framework_validate(obj) ==
    IF 0 <= obj.dict["answer"].v
       /\ obj.dict["answer"].v < Len(obj.dict["choices"].items)
    THEN Returned(None) ELSE Raised("ValueError")

\* cls(**parameters): the object, or the exception that leaves none
FrameworkInit(cls, parameters) ==
    LET set == _validate_and_set_parameters(Framework(cls, <<>>), parameters, 1)
    IN  IF set.out.status = "raised" THEN set.out
        ELSE IF framework_validate(set.obj).status = "raised"
        THEN framework_validate(set.obj)
        ELSE Returned(set.obj)

\* the keyword arguments tried: nothing for a parameter, or one of a few
\* values of every kind
Missing == PyValue("missing", 0, <<>>)
\* a tuple of n strings, and the same with a number at position i
Strings(n) == [i \in 1..n |-> PyStr(1)]
Spoiled(n, i) == [Strings(n) EXCEPT ![i] = PyInt(1)]
ChoicesValues ==
    {PyTuple(Strings(n)) : n \in 0..MaxChoices}
    \cup {PyTuple(Spoiled(n, 1)) : n \in 1..MaxChoices}
    \cup {PyList(Strings(FiveChoices)), PyStr(FiveChoices), PyInt(FiveChoices)}
ArgumentValues(name) ==
    CASE name = "question" -> {PyStr(1), PyInt(100)}
      [] name = "choices" -> ChoicesValues
      [] name = "answer" ->
            {PyInt(a) : a \in (0 - 1)..MaxChoices}
            \cup {PyStr(1), PyBool(TRUE)}
      [] name = "score" ->
            {PyInt(0 - 5), PyInt(0), PyInt(10), PyFloat(5), PyStr(2),
             PyBool(TRUE)}
ParameterNames == {parameter_names[i] : i \in 1..Len(parameter_names)}
\* parameters without the names that got no value
Keywords(full) ==
    [name \in {n \in ParameterNames : full[n] # Missing} |-> full[name]]
Arguments ==
    {Keywords(full) :
       full \in [question : ArgumentValues("question") \cup {Missing},
                 choices : ArgumentValues("choices") \cup {Missing},
                 answer : ArgumentValues("answer") \cup {Missing},
                 score : ArgumentValues("score") \cup {Missing}]}

InitFramework ==
    /\ ResultIdle
    /\ call = NoCall
    /\ ret = NoReturn
    /\ second = NoResult
    /\ session = NoSession
    /\ history = NoHistory
    /\ instance = NoInstance

\* framework = cls(**parameters)
CallFramework(cls, parameters) ==
    /\ call = NoCall
    /\ call' = [fn |-> cls, name |-> "", parameters |-> parameters]
    /\ ret' = FrameworkInit(cls, parameters)
    /\ instance' = IF ret'.status = "done" THEN ret'.value ELSE NoInstance
    /\ UNCHANGED <<resultVars, second, session, history>>

\* framework.name = value
SetParameter(name, value) ==
    /\ instance # NoInstance
    /\ LET set == __set__(instance, name, value) IN
       /\ instance' = set.obj
       /\ ret' = set.out
    /\ call' = [fn |-> "__set__", name |-> name, parameters |-> <<>>]
    /\ UNCHANGED <<resultVars, second, session, history>>

\* del framework.name
DeleteParameter(name) ==
    /\ instance # NoInstance
    /\ LET deleted == __delete__(instance, name) IN
       /\ instance' = deleted.obj
       /\ ret' = deleted.out
    /\ call' = [fn |-> "__delete__", name |-> name, parameters |-> <<>>]
    /\ UNCHANGED <<resultVars, second, session, history>>

NextFramework ==
    \/ \E cls \in FrameworkClasses, parameters \in Arguments :
          CallFramework(cls, parameters)
    \/ \E name \in ParameterNames :
          \E value \in ArgumentValues(name) : SetParameter(name, value)
    \/ \E name \in ParameterNames : DeleteParameter(name)

SpecFramework == InitFramework /\ [][NextFramework]_vars

(***************************************************************************)
(* Results over a TernaryIfNode of three leaves, alone and with its two    *)
(* branches shared with a node_sum.                                        *)
(***************************************************************************)
TernaryShapes == {"ternary", "sharedbranch"}
TernaryKinds == {"Constant", "Lottery", "AnswerOnlyTest", "ProgramTest"}

\* TernaryIfNode(l1, l2, l3), and node_sum([TernaryIfNode(l1, l2, l3), l2, l3])
BuildTernary(s, kinds) ==
    LET t == TernaryIfNode(Leaves(kinds), NodeVal(1), NodeVal(2), NodeVal(3))
    IN  IF s = "ternary" THEN t
        ELSE node_sum(t.heap, <<NodeVal(t.id), NodeVal(2), NodeVal(3)>>)

InitTernary ==
    /\ \E s \in TernaryShapes :
       \E kinds \in LeafChoices("chains", 3) :
          LET g == BuildTernary(s, kinds) IN
          /\ \A i \in 1..Len(kinds) : kinds[i] \in TernaryKinds
          /\ shape = s
          /\ args = LeafArgs(kinds)
          /\ nodes = g.heap
          /\ root = g.id
          /\ data \in DataFor(kinds)
    /\ pc = "new"
    /\ stack = <<>>
    /\ processed = <<>>
    /\ final_score = None
    /\ error = NoError
    /\ evalCount = [n \in 1..Len(nodes) |-> 0]
    /\ calls = {}
    /\ sandboxes = <<>>
    /\ onDemand = 0
    /\ OthersIdle

(***************************************************************************)
(* The holder of a Result working on a NodeResult's messages: messages is  *)
(* the dictionary that NodeResult.__init__ stores as a plain attribute.    *)
(***************************************************************************)
MessageKeys == {"runtime_error"}
MessageValues == {"changed"}

\* del result[key].messages[name]
DelMessage(nr, name) ==
    IF \E m \in nr.messages : m[1] = name
    THEN [nr |-> [nr EXCEPT !.messages = {m \in @ : m[1] # name}],
          err |-> NoError]
    ELSE [nr |-> nr, err |-> "KeyError"]

\* result[key].messages[name] = value
ClientSetMessage(key, name, value) ==
    /\ pc = "done"
    /\ InMemo(key)
    /\ processed' = [processed EXCEPT ![key] = SetMessage(@, name, value)]
    /\ error' = NoError
    /\ UNCHANGED <<graphVars, otherVars, pc, stack, final_score, evalCount, calls,
                   sandboxes, onDemand>>

ClientDelMessage(key, name) ==
    /\ pc = "done"
    /\ InMemo(key)
    /\ LET del == DelMessage(processed[key], name) IN
       /\ processed' = [processed EXCEPT ![key] = del.nr]
       /\ error' = del.err
    /\ UNCHANGED <<graphVars, otherVars, pc, stack, final_score, evalCount, calls,
                   sandboxes, onDemand>>

NextTernary ==
    \/ ResultInit
    \/ Descend
    \/ EvalConstant
    \/ OperatorStep
    \/ OperatorFinish
    \/ TernaryCond
    \/ TernaryFinish
    \/ EvalLottery
    \/ EvalAnswerOnlyTest
    \/ EvalProgramTest
    \/ \E key \in ClientNodes : ClientLookup(key)
    \/ \E key \in ClientNodes, name \in MessageKeys, value \in MessageValues :
          ClientSetMessage(key, name, value)
    \/ \E key \in ClientNodes, name \in MessageKeys :
          ClientDelMessage(key, name)

SpecTernary == InitTernary /\ [][NextTernary]_vars

(***************************************************************************)
(* StandardCheckScript.check_answer (core/checkscript.py) on its own.      *)
(***************************************************************************)
\* words_stream(fileobj): the words of each line, then '\n'
words_stream(text) == stream_of(lines(text))

\* zip(stream_a, stream_b): pairs up to the end of the shorter stream
zip(a, b) ==
    [i \in 1..(IF Len(a) < Len(b) THEN Len(a) ELSE Len(b)) |-> <<a[i], b[i]>>]

\* how many items zip has taken from a when it stops: zip asks a first, so
\* it has taken one item more from a when it finds b exhausted
TakenFromFirst(a, b) == IF Len(a) > Len(b) THEN Len(b) + 1 ELSE Len(a)

StandardCheckScript(output_file, solution_file) ==
    LET stream_a == words_stream(output_file)
        stream_b == words_stream(solution_file)
        pairs == zip(stream_a, stream_b)
    IN  IF \E i \in 1..Len(pairs) : pairs[i][1] # pairs[i][2] THEN FALSE
        \* next(stream_a)
        ELSE IF TakenFromFirst(stream_a, stream_b) < Len(stream_a) THEN FALSE
        \* next(stream_b)
        ELSE IF Len(pairs) < Len(stream_b) THEN FALSE
        ELSE TRUE

InitCheckScript ==
    /\ ResultIdle
    /\ call \in {[fn |-> "StandardCheckScript", output |-> o, solution |-> x] :
                    o \in Texts(MaxOutput), x \in Texts(MaxSolution)}
    /\ ret = NoReturn
    /\ NoOthers

CallCheckScript ==
    /\ call.fn = "StandardCheckScript"
    /\ ret = NoReturn
    /\ ret' = Returned(StandardCheckScript(call.output, call.solution))
    /\ UNCHANGED calleeVars

NextCheckScript == CallCheckScript

SpecCheckScript == InitCheckScript /\ [][NextCheckScript]_vars

(***************************************************************************)
(* Vocabulary of the properties.                                           *)
(***************************************************************************)
NodeIds == 1..Len(nodes)
LeafId(i) == args[i].v
LeafIds == {LeafId(i) : i \in 1..Len(args)}
LeafScores == [i \in 1..Len(args) |-> processed[LeafId(i)].score]
Completed(n) == InMemo(n) /\ processed[n].completed
HasMessage(n, key) == \E m \in processed[n].messages : m[1] = key
OfKind(kind) == {n \in NodeIds : nodes[n].kind = kind}
Called(n, what) == <<n, what>> \in calls
Frames == {stack[j] : j \in 1..Len(stack)}
SandboxesOf(n) == {j \in 1..Len(sandboxes) : sandboxes[j].owner = n}

Children(n) == {nodes[n].operand[j] : j \in 1..Len(nodes[n].operand)}
RECURSIVE Closure(_)
Closure(S) == LET T == S \cup UNION {Children(n) : n \in S}
              IN  IF T = S THEN S ELSE Closure(T)
\* some node that the root reaches also reaches itself
HasCycle == \E n \in Closure({root}) : n \in Closure(Children(n))

(***************************************************************************)
(* C1.  Within one Result every node is evaluated at most once, and        *)
(* exactly once if it has a NodeResult, however many parents reach it:     *)
(* every score a parent has read is the score in the node's one            *)
(* NodeResult, so in node_sum(leaves) + node_max(leaves) both parents of   *)
(* a shared Lottery leaf see the same draw.                                *)
(***************************************************************************)
C1_EvaluatedOnce ==
    /\ \A n \in NodeIds : evalCount[n] = IF n \in DOMAIN processed THEN 1 ELSE 0
    /\ \A f \in Frames :
          nodes[f.node].kind = "Operator" =>
             \A j \in 1..Len(f.sub) :
                f.sub[j] = processed[nodes[f.node].operand[j]].score
    /\ (pc = "done" /\ shape = "shared") =>
          final_score = SumOf(LeafScores) + MaxOf(LeafScores)

C1_Witness ==
    /\ pc = "done"
    /\ shape = "shared"
    /\ \E n \in LeafIds \cap OfKind("Lottery") :
          /\ processed[n].score > 0
          /\ evalCount[n] = 1
          /\ Cardinality({m \in NodeIds : n \in Children(m)}) >= 2

(***************************************************************************)
(* C2.  Constructing a Result over a graph with a cycle always ends by     *)
(* raising the cycle error ("test graph should not contain cycles"), and   *)
(* never returns a Result.                                                 *)
(***************************************************************************)
C2_CycleAlwaysRaises ==
    (HasCycle /\ pc \in {"done", "failed"}) =>
        (pc = "failed" /\ error = "ValueError")

(***************************************************************************)
(* C3.  A soft failure of a test leaf (key missing from data, program      *)
(* raising, output or answer rejected by the predicate) never aborts the   *)
(* construction; the leaf ends with success 0, score 0 and a message; the  *)
(* final score is the root's score, and the node_sum of failed and         *)
(* successful leaves is the sum of the full scores of the successful ones. *)
(***************************************************************************)
SoftErrors == {"KeyError", "Exception", "TimeoutExpired", "CalledProcessError"}
TestLeaves == OfKind("AnswerOnlyTest") \cup OfKind("ProgramTest")
                \cup OfKind("FileProgramTest")

C3_SoftFailureIsLocal ==
    /\ error \notin SoftErrors
    /\ \A n \in TestLeaves :
          Completed(n) =>
             /\ nodes[n].key \notin DOMAIN data =>
                   processed[n].success = 0 /\ HasMessage(n, "lookup_error")
             /\ Called(n, "raised") =>
                   processed[n].success = 0 /\ HasMessage(n, "runtime_error")
             /\ processed[n].success = 0 =>
                   processed[n].score = 0 /\ processed[n].messages # {}
    /\ pc = "done" => final_score = processed[root].score
    /\ (pc = "done" /\ shape = "sum") =>
          final_score = SumOf([i \in 1..Len(args) |->
                                 IF processed[LeafId(i)].success = 1
                                 THEN nodes[LeafId(i)].full_score ELSE 0])

C3_Witness ==
    /\ pc = "done"
    /\ shape = "sum"
    /\ \E n \in OfKind("ProgramTest") : Called(n, "raised")
    /\ \E n \in OfKind("AnswerOnlyTest") :
          processed[n].success = 1 /\ final_score = nodes[n].full_score
    /\ final_score > 0

(***************************************************************************)
(* C4.  The score of chains(n1, ..., nk) is the sum of the scores of       *)
(* n1..nj, nj being the first link whose score is 0 (nk if there is        *)
(* none); a link passes when its score is nonzero, whatever its success    *)
(* flag.                                                                   *)
(***************************************************************************)
RECURSIVE ChainScore(_)
ChainScore(i) ==
    IF i = Len(args) THEN processed[LeafId(i)].score
    ELSE IF processed[LeafId(i)].score # 0
         THEN processed[LeafId(i)].score + ChainScore(i + 1)
         ELSE 0

C4_ChainScore ==
    (pc = "done" /\ shape = "chains") => final_score = ChainScore(1)

\* the first link has success 1 and score 0, and the chain stops there
C4_Witness ==
    /\ pc = "done"
    /\ shape = "chains"
    /\ Len(args) = 3
    /\ processed[LeafId(1)].success = 1
    /\ processed[LeafId(1)].score = 0
    /\ final_score = 0

(***************************************************************************)
(* C5.  As claimed: when the first link of a chain has score 0, the later  *)
(* links are still evaluated while the Result is constructed.              *)
(***************************************************************************)
C5_DownstreamEvaluated ==
    (pc = "done" /\ shape = "chains" /\ onDemand = 0
       /\ processed[LeafId(1)].score = 0) =>
        \A j \in 2..Len(args) : InMemo(LeafId(j)) /\ evalCount[LeafId(j)] = 1

(***************************************************************************)
(* C5, amended.  While a Result is constructed over chains(n1, ..., nk), a *)
(* link is evaluated only if every earlier link has completed with a       *)
(* nonzero score: the links after a failed link get no NodeResult and      *)
(* their side effects (program runs, predicate calls, sandboxes) do not    *)
(* happen.                                                                 *)
(***************************************************************************)
C5_DownstreamNotEvaluated ==
    (shape = "chains" /\ onDemand = 0) =>
        \A j \in 2..Len(args) :
           /\ InMemo(LeafId(j)) =>
                 \A i \in 1..(j - 1) :
                    Completed(LeafId(i)) /\ processed[LeafId(i)].score # 0
           /\ ~InMemo(LeafId(j)) =>
                 /\ evalCount[LeafId(j)] = 0
                 /\ SandboxesOf(LeafId(j)) = {}
                 /\ \A c \in calls : c[1] # LeafId(j)

C5_Witness ==
    /\ pc = "done"
    /\ shape = "chains"
    /\ onDemand = 0
    /\ Len(args) = 3
    /\ processed[LeafId(1)].score = 0
    /\ nodes[LeafId(2)].kind = "FileProgramTest"
    /\ ProgramKey \in DOMAIN data
    /\ ~InMemo(LeafId(2))
    /\ ~InMemo(LeafId(3))

(***************************************************************************)
(* C6.  The success and the score of a completed NodeResult never change:  *)
(* an assignment to either raises AttributeError and changes nothing,      *)
(* whereas an assignment to a NodeResult not yet marked complete takes     *)
(* effect.                                                                 *)
(***************************************************************************)
ReadOnlyStep ==
    /\ \A n \in DOMAIN processed :
          processed[n].completed =>
             /\ n \in DOMAIN processed'
             /\ processed'[n].success = processed[n].success
             /\ processed'[n].score = processed[n].score
    /\ \A key \in ClientNodes, value \in ClientValues :
          /\ ClientSetSuccess(key, value) =>
                IF processed[key].completed
                THEN error' = "AttributeError" /\ processed' = processed
                ELSE error' = NoError /\ processed'[key].success = value
          /\ ClientSetScore(key, value) =>
                IF processed[key].completed
                THEN error' = "AttributeError" /\ processed' = processed
                ELSE error' = NoError /\ processed'[key].score = value

C7_LookupNeverEvaluates ==
    [][pc = "done" =>
          DOMAIN processed' = DOMAIN processed /\ evalCount' = evalCount]_vars

(***************************************************************************)
(* C7, amended.  Once the Result is constructed its final score never      *)
(* changes, no entry leaves the memo table, no node that has a NodeResult  *)
(* is evaluated again and no completed NodeResult changes its success,     *)
(* score or completed flag; but looking up a node that has no NodeResult   *)
(* evaluates it on demand and adds it to the memo table.                   *)
(***************************************************************************)
LazyStep ==
    pc \in {"done", "lookup"} =>
       /\ final_score' = final_score
       /\ \A n \in DOMAIN processed :
             /\ n \in DOMAIN processed'
             /\ evalCount'[n] = evalCount[n]
             /\ processed[n].completed =>
                   /\ processed'[n].completed
                   /\ processed'[n].success = processed[n].success
                   /\ processed'[n].score = processed[n].score
       /\ \A n \in DOMAIN processed' \ DOMAIN processed :
             pc' = "lookup" /\ evalCount'[n] = 1
       /\ \A key \in ClientNodes :
             (ClientLookup(key) /\ ~InMemo(key)) =>
                 key \in DOMAIN processed' /\ evalCount'[key] = 1

C7_LookupIsLazy == [][LazyStep]_vars

\* a lookup made after construction is evaluating a node
C7_Witness ==
    /\ pc = "lookup"
    /\ onDemand = 1
    /\ \E n \in ClientNodes :
          InMemo(n) /\ ~processed[n].completed /\ evalCount[n] = 1

(***************************************************************************)
(* C8.  An AnswerOnlyTest node ends with success 1 and score full_score    *)
(* exactly when its key is in data and the predicate holds of the answer   *)
(* (equality with the predicate when it is not callable); when the key is  *)
(* absent it ends with success 0, score 0 and a lookup_error message, its  *)
(* predicate is not called and no exception leaves evaluate.               *)
(***************************************************************************)
Accepts(n, answer) ==
    IF nodes[n].predicate.callable
    THEN answer \in {a \in 1..MaxAnswer : a >= nodes[n].predicate.value}
    ELSE answer = nodes[n].predicate.value

C8_AnswerOnlyTest ==
    \A n \in OfKind("AnswerOnlyTest") :
       InMemo(n) =>
          IF processed[n].completed
          THEN LET present == nodes[n].key \in DOMAIN data
                   ok == present /\ Accepts(n, data[nodes[n].key].v)
               IN  /\ processed[n].success = (IF ok THEN 1 ELSE 0)
                   /\ processed[n].score =
                         (IF ok THEN nodes[n].full_score ELSE 0)
                   /\ ~present => /\ HasMessage(n, "lookup_error")
                                  /\ ~Called(n, "predicate")
                   /\ present => Called(n, "predicate")
          ELSE stack # <<>> /\ top.node = n

C8_Witness ==
    \E n \in OfKind("AnswerOnlyTest") :
       /\ Completed(n)
       /\ nodes[n].key \notin DOMAIN data
       /\ HasMessage(n, "lookup_error")
       /\ pc = "done"

(***************************************************************************)
(* C9.  A program test whose program key is absent from data ends with     *)
(* success 0, score 0 and a lookup_error message; no program is run, the   *)
(* checker is not called, no exception leaves evaluate, and the sandbox    *)
(* directory a FileProgramTest made for the evaluation is gone when        *)
(* evaluate returns.                                                       *)
(***************************************************************************)
C9_MissingProgram ==
    \A n \in OfKind("FileProgramTest") \cup OfKind("ProgramTest") :
       (n \in DOMAIN processed /\ nodes[n].key \notin DOMAIN data) =>
          /\ ~Called(n, "program")
          /\ ~Called(n, "checker")
          /\ processed[n].success = 0
          /\ processed[n].score = 0
          /\ IF processed[n].completed
             THEN /\ HasMessage(n, "lookup_error")
                  /\ \A j \in SandboxesOf(n) : ~sandboxes[j].exists
                  /\ nodes[n].kind = "FileProgramTest" => SandboxesOf(n) # {}
             ELSE stack # <<>> /\ top.node = n

C9_Witness ==
    \E n \in OfKind("FileProgramTest") :
       /\ Completed(n)
       /\ nodes[n].key \notin DOMAIN data
       /\ HasMessage(n, "lookup_error")
       /\ Cardinality(SandboxesOf(n)) = 1
       /\ pc = "done"

(***************************************************************************)
(* C10.  When the program of a test raises (an in-process callable raises, *)
(* an executable times out or exits with a nonzero status), the node       *)
(* completes with success 0, score 0 and a runtime_error message, the      *)
(* checker is not called, the exception does not leave the Result, and no  *)
(* sandbox directory of the evaluation is left.                            *)
(***************************************************************************)
C10_ProgramRaises ==
    /\ error \notin {"Exception", "TimeoutExpired", "CalledProcessError"}
    /\ \A n \in OfKind("FileProgramTest") \cup OfKind("ProgramTest") :
          Called(n, "raised") =>
             /\ Completed(n)
             /\ processed[n].success = 0
             /\ processed[n].score = 0
             /\ HasMessage(n, "runtime_error")
             /\ ~Called(n, "checker")
             /\ \A j \in SandboxesOf(n) : ~sandboxes[j].exists

\* an executable has failed: its own sandbox and the node's are both gone
C10_Witness ==
    \E n \in OfKind("FileProgramTest") :
       /\ Called(n, "raised")
       /\ data[nodes[n].key].type = "Executable"
       /\ Cardinality(SandboxesOf(n)) = 2
       /\ HasMessage(n, "runtime_error")
       /\ pc = "done"

(***************************************************************************)
(* C11.  When the program of a FileProgramTest has run without raising,    *)
(* the checker is called and its verdict becomes the node's result: the    *)
(* node completes with success 1 and score full_score when the output      *)
(* agrees with the solution, and with success 0 and score 0 otherwise.     *)
(***************************************************************************)
C11_CheckerDecides ==
    \A n \in OfKind("FileProgramTest") :
       (Called(n, "program") /\ ~Called(n, "raised")
          /\ \A f \in Frames : f.node # n) =>
             /\ Completed(n)
             /\ Called(n, "checker")
             /\ processed[n].success = (IF Called(n, "same") THEN 1 ELSE 0)
             /\ processed[n].score =
                   (IF Called(n, "same") THEN nodes[n].full_score ELSE 0)

(***************************************************************************)
(* C12.  A sandbox directory exists only while the evaluation that made it *)
(* is in progress: whichever way the evaluation ends (result recorded,     *)
(* lookup failure, runtime failure, exception of the checker) its          *)
(* directory is gone, and no sandbox serves two evaluations.               *)
(***************************************************************************)
C12_SandboxRemoved ==
    /\ \A j \in 1..Len(sandboxes) :
          /\ sandboxes[j].exists =>
                \E f \in Frames : f.node = sandboxes[j].owner /\ f.sandbox = j
          /\ evalCount[sandboxes[j].owner] = 1
    /\ \A f, g \in Frames : (f.sandbox # 0 /\ f.sandbox = g.sandbox) => f = g
    /\ pc \in {"done", "failed"} =>
          \A j \in 1..Len(sandboxes) :
             ~sandboxes[j].exists /\ ~sandboxes[j].is_open

\* the call of the checker has raised and the sandbox is gone all the same
C12_Witness ==
    /\ pc = "failed"
    /\ error = "TypeError"
    /\ \E n \in OfKind("FileProgramTest") :
          /\ Called(n, "checker")
          /\ SandboxesOf(n) # {}
          /\ \A j \in SandboxesOf(n) : ~sandboxes[j].exists

(***************************************************************************)
(* C14.  A sum, max or min over one or more nodes scores the sum, the      *)
(* maximum or the minimum of the scores of its operands.                   *)
(***************************************************************************)
C14_SumMaxMin ==
    (shape \in {"sum", "max", "min"} /\ Len(args) >= 1
       /\ pc \in {"done", "failed"}
       /\ \A n \in LeafIds : Completed(n)) =>
          /\ pc = "done"
          /\ final_score = CASE shape = "sum" -> SumOf(LeafScores)
                             [] shape = "max" -> MaxOf(LeafScores)
                             [] shape = "min" -> MinOf(LeafScores)

(***************************************************************************)
(* C15.  Evaluating a sum or a max over no operands raises: it never ends  *)
(* with a score.                                                           *)
(***************************************************************************)
C15_EmptyRaises ==
    (shape \in {"sum", "max"} /\ Len(args) = 0 /\ pc \in {"done", "failed"}) =>
        (pc = "failed" /\ error # NoError)

(***************************************************************************)
(* C13.  Constructing an operator node, directly or through an overloaded  *)
(* operator, keeps the node arguments, wraps every number in a new         *)
(* ConstantNode of that value, keeps the order of the arguments, and       *)
(* raises TypeError without building the node exactly when an argument is  *)
(* neither a node nor a number.  It fails for << , which always raises.    *)
(***************************************************************************)
\* the arguments in the order they are written in the call
Given(c) ==
    IF c.fn \in {"radd", "rlshift"} THEN <<c.values[2], c.values[1]>>
    ELSE c.values

C13_OperatorNodeArgs ==
    ret.status = "done" =>
       LET given == Given(call)
           made == ret.value
           old == Len(BaseHeap)
       IN  IF \E i \in 1..Len(given) : given[i].tag \notin {"node", "num"}
           THEN made.err = "TypeError" /\ made.id = 0 /\ made.heap = BaseHeap
           ELSE /\ made.err = NoError
                /\ made.id = Len(made.heap)
                /\ made.id > old
                /\ SubSeq(made.heap, 1, old) = BaseHeap
                /\ made.heap[made.id].kind = "Operator"
                /\ made.heap[made.id].op = call.op
                /\ Len(made.heap[made.id].operand) = Len(given)
                /\ \A i \in 1..Len(given) :
                      LET o == made.heap[made.id].operand[i] IN
                      IF given[i].tag = "node" THEN o = given[i].v
                      ELSE /\ o > old
                           /\ o < made.id
                           /\ made.heap[o].kind = "Constant"
                           /\ made.heap[o].full_score = given[i].v

(***************************************************************************)
(* C16.  The word checker succeeds exactly when the token streams of       *)
(* output and solution are equal in length and content; said without       *)
(* streams, exactly when the two files are the same once every run of      *)
(* blanks is one blank, blanks at either end of a line are dropped, and a  *)
(* last line without newline is given one.                                 *)
(***************************************************************************)
\* the characters of text at the positions in keep, in order
Pick(text, keep) ==
    [j \in 1..Cardinality(keep) |->
        text[CHOOSE i \in keep : Cardinality({k \in keep : k <= i}) = j]]

\* position i holds a blank that separates two words of one line
Separates(text, i) ==
    /\ text[i] = " "
    /\ i > 1 /\ ~IsSpace(text[i - 1])
    /\ \E j \in (i + 1)..Len(text) :
          ~IsSpace(text[j]) /\ \A k \in i..(j - 1) : text[k] = " "

Canonical(text) ==
    Pick(text, {i \in 1..Len(text) : text[i] # " " \/ Separates(text, i)})
    \o (IF text # <<>> /\ text[Len(text)] # "\n" THEN <<"\n">> ELSE <<>>)

C16_WordChecker ==
    (call.fn = "check_answer" /\ ret.status = "done") =>
        /\ ret.value = (word_stream(call.output) = word_stream(call.solution))
        /\ ret.value = (Canonical(call.output) = Canonical(call.solution))

\* accepted although the spacing differs, rejected for a missing last word
C16_Witness ==
    /\ call.fn = "check_answer"
    /\ ret.status = "done"
    /\ \/ /\ call.output = <<"a", " ", " ", "a", "\n">>
          /\ call.solution = <<"a", " ", "a">>
          /\ ret.value = TRUE
       \/ /\ call.output = <<"a", " ", "a">>
          /\ call.solution = <<"a">>
          /\ ret.value = FALSE

(***************************************************************************)
(* C17.  The external checker returns the first two tokens printed by the  *)
(* checker process as (success, score), and raises when fewer than two     *)
(* tokens, or a token that is no number, were printed.  It fails: the call *)
(* raises TypeError whatever the process prints.                           *)
(***************************************************************************)
C17_ExternalChecker ==
    (call.fn = "ExternalChecker" /\ ret.status # "pending") =>
        LET printed == call.printed IN
        IF Len(printed) >= 2 /\ IsNumeric(printed[1]) /\ IsNumeric(printed[2])
        THEN /\ ret.status = "done"
             /\ ret.value = <<Decimal(printed[1]), Decimal(printed[2])>>
        ELSE ret.status = "raised"

(***************************************************************************)
(* C18.  Evaluation never modifies the node graph, and of two Results over *)
(* the same graph, a step of one (in its construction or in a lookup)      *)
(* changes no NodeResult and no final score of the other.  When both are   *)
(* complete, what each holds is what its own data gives.                   *)
(***************************************************************************)
IndependentStep ==
    /\ nodes' = nodes /\ root' = root
    /\ \/ SwitchResult
       \/ /\ second' = second
          /\ ProcessedNodes(second', processed') = ProcessedNodes(second, processed)

\* with no Lottery leaf the scores are a function of the data
SameDataSameScore ==
    (/\ second # NoResult
     /\ pc = "done" /\ second.pc = "done"
     /\ data = second.data
     /\ \A n \in LeafIds : nodes[n].kind # "Lottery") =>
        /\ final_score = second.final_score
        /\ \A n \in DOMAIN processed \cap DOMAIN second.processed :
              processed[n] = second.processed[n]

C18_ResultsAreIndependent == [][IndependentStep]_vars /\ []SameDataSameScore

\* both Results are complete, the second one constructed while the first
\* one was still under construction, over different data
C18_Witness ==
    /\ second # NoResult
    /\ pc = "done" /\ second.pc = "done"
    /\ data # second.data
    /\ final_score # second.final_score
    /\ \E n \in DOMAIN processed : n \notin DOMAIN second.processed

(***************************************************************************)
(* C19.  The constructor of a file-based test node raises, and builds no   *)
(* node, when the input or the solution path is not absolute or does not   *)
(* name an existing file: every node it builds refers to two absolute      *)
(* paths of existing files.  It fails for a path that names a directory.   *)
(***************************************************************************)
NamesFile(path) == path.absolute /\ path.names = "file"

C19_PathsValidated ==
    (call.fn \in {"FileProgramTestNode", "EvaluateProgramNode"}
        /\ ret.status # "pending") =>
       /\ ~(NamesFile(call.input_fname) /\ NamesFile(call.solution_fname)) =>
              ret.status = "raised"
       /\ ret.status = "done" =>
              NamesFile(call.input_fname) /\ NamesFile(call.solution_fname)

(***************************************************************************)
(* C20.  A session is not started, and reading public_data raises          *)
(* AttributeError, as long as neither __next__ nor submit has been called; *)
(* it is not finished, and reading summary_data raises AttributeError, as  *)
(* long as the framework has not ended it.                                 *)
(***************************************************************************)
C20_NewSession ==
    session # NoSession =>
       /\ history.resumes = 0 =>
             /\ ~has_started(session)
             /\ public_data(session).status = "raised"
             /\ public_data(session).value = "AttributeError"
             /\ call.fn = "public_data" =>
                   ret.status = "raised" /\ ret.value = "AttributeError"
       /\ ~history.ended =>
             /\ ~has_finished(session)
             /\ summary_data(session).status = "raised"
             /\ summary_data(session).value = "AttributeError"
             /\ call.fn = "summary_data" =>
                   ret.status = "raised" /\ ret.value = "AttributeError"

\* started, not finished, and summary_data has just been read
C20_Witness ==
    /\ session # NoSession
    /\ has_started(session)
    /\ ~history.ended
    /\ call.fn = "summary_data"
    /\ ret.status = "raised"

(***************************************************************************)
(* C21.  Once a framework object has been constructed, assigning to one of *)
(* its parameters or deleting one raises AttributeError and leaves every   *)
(* stored parameter value as it was.                                       *)
(***************************************************************************)
ParameterStep ==
    (instance # NoInstance /\ call'.fn \in {"__set__", "__delete__"}) =>
       /\ ret'.status = "raised"
       /\ ret'.value = "AttributeError"
       /\ instance' = instance

C21_ParametersReadOnly == [][ParameterStep]_vars

\* answer = 0 has survived an assignment to answer
C21_Witness ==
    /\ instance # NoInstance
    /\ call.fn = "__set__"
    /\ call.name = "answer"
    /\ ret.status = "raised"
    /\ instance.dict["answer"] = PyInt(0)

(***************************************************************************)
(* C22.  Constructing a multiple-choice framework from a value for every   *)
(* parameter succeeds exactly if every value has its declared dtype, the   *)
(* choices have an allowed length, score passes its validator and answer   *)
(* indexes a choice; otherwise the constructor raises and no object        *)
(* results: TypeError for a wrong dtype of question, answer or score or    *)
(* for choices that are no sized iterable, ValueError for a failed         *)
(* validator, a wrong length, an answer out of range, and also for a       *)
(* choice of the wrong dtype.  Every framework object has                  *)
(* 0 <= answer < number of choices and score > 0.                          *)
(***************************************************************************)
Constructing == call.fn \in FrameworkClasses
AllGiven == DOMAIN call.parameters = ParameterNames
Argument(name) == call.parameters[name]

WrongDtype ==
    \/ Argument("question").type # "str"
    \/ Argument("answer").type \notin {"int", "bool"}
    \/ Argument("score").type \notin {"int", "bool"}
NoSequence == Argument("choices").type \notin {"tuple", "list", "str"}
WrongChoice ==
    \E i \in 1..Len(Argument("choices").items) :
       Argument("choices").items[i].type # "str"
NumberOfChoices ==
    IF Argument("choices").type = "str" THEN Argument("choices").v
    ELSE Len(Argument("choices").items)
WrongLength ==
    ~NoSequence /\ call.fn = "FiveChoicesFramework"
                /\ NumberOfChoices # FiveChoices
FailedValidator ==
    Argument("score").type \in {"int", "bool"} /\ Argument("score").v <= 0
OutOfRange ==
    /\ Argument("answer").type \in {"int", "bool"}
    /\ ~NoSequence
    /\ ~(0 <= Argument("answer").v /\ Argument("answer").v < NumberOfChoices)

ValidFramework ==
    instance # NoInstance =>
       /\ 0 <= instance.dict["answer"].v
       /\ instance.dict["answer"].v < Len(instance.dict["choices"].items)
       /\ instance.dict["score"].v > 0

C23_DefaultScore ==
    (/\ call.fn = "FiveChoicesFramework"
     /\ DOMAIN call.parameters = {"question", "choices", "answer"}
     /\ Argument("question") = PyStr(1)
     /\ Argument("choices") = PyTuple(Strings(FiveChoices))
     /\ Argument("answer") = PyInt(0)) =>
       /\ ret.status = "done"
       /\ instance # NoInstance
       /\ instance.dict["score"] = PyInt(10)

(***************************************************************************)
(* C24.  loads(session.to_json()) is a session in the same state as the    *)
(* session, at any point of its life: the same has_started and             *)
(* has_finished, stage counter, public data and summary, and a framework   *)
(* with equal parameter values.  It fails for the public data of a started *)
(* multiple-choice session: the tuple of choices comes back as a list.     *)
(***************************************************************************)
C24_JsonRoundTrip ==
    session # NoSession =>
       LET new_session == _decoder_object_hook(to_json(session)) IN
       /\ has_started(new_session) = has_started(session)
       /\ has_finished(new_session) = has_finished(session)
       /\ new_session.stage_counter = session.stage_counter
       /\ new_session.framework = session.framework
       /\ new_session.summary = session.summary
       /\ new_session.public = session.public

(***************************************************************************)
(* C25.  Every call of submit or __next__ returns new public data or       *)
(* raises StopIteration with the final summary; on a finished session it   *)
(* raises StopIteration with the same summary, calls no method of the      *)
(* framework and changes neither the summary nor the public data.  It      *)
(* fails: a call can raise another exception, and on a finished session    *)
(* whose resume_session is a StageSequence or a StateMachine of            *)
(* utils/dispatches.py, submit raises AttributeError.                      *)
(***************************************************************************)
ResumeStep ==
    (session # NoSession /\ history'.resumes = history.resumes + 1) =>
       /\ ret'.status \in {"done", "stopped"}
       /\ ret'.status = "done" => ret'.value = session'.public
       /\ ret'.status = "stopped" => ret'.value = session'.summary
       /\ has_finished(session) =>
             /\ ret'.status = "stopped"
             /\ ret'.value = session.summary
             /\ history'.ran = <<>>
             /\ session'.summary = session.summary
             /\ session'.public = session.public

C25_ResumeReturnsOrStops == [][ResumeStep]_vars

\* the second half alone: what a call does on a finished session
FinishedStep ==
    (/\ session # NoSession
     /\ history'.resumes = history.resumes + 1
     /\ has_finished(session)) =>
       /\ ret'.status = "stopped"
       /\ ret'.value = session.summary
       /\ history'.ran = <<>>
       /\ session'.summary = session.summary
       /\ session'.public = session.public
FinishedStaysFinished == [][FinishedStep]_vars

(***************************************************************************)
(* C26.  In every state of a session and for every response,               *)
(* prepare(response) followed by __next__ does what submit(response) does: *)
(* the same value is returned or the same exception raised, and the        *)
(* session is left in the same state.                                      *)
(***************************************************************************)
\* session.prepare(response); next(session), where the method called does o
PrepareThenNext(s, response, o) ==
    LET prepared == prepare(s, response) IN
    IF prepared.out.status = "raised" THEN prepared
    ELSE __next__(prepared.session, o)

C26_PrepareNextIsSubmit ==
    session # NoSession =>
       \A response \in Responses :
          \A o \in CurrentOutcomes([session EXCEPT !.prepared = response]) :
             LET two == PrepareThenNext(session, response, o)
                 one == submit(session, response, o)
             IN  /\ two.out = one.out
                 /\ two.session = one.session
                 /\ two.ran = one.ran

\* a choice was prepared and the __next__ after it ended the session
C26_Witness ==
    /\ session # NoSession
    /\ call.fn = "__next__"
    /\ call.response # EmptyResponse
    /\ ret.status = "stopped"
    /\ session.prepared = EmptyResponse

(***************************************************************************)
(* C27.  With a StateMachine resume_session, a state method that returns   *)
(* '$self' leaves the session in the state it was in, and one that returns *)
(* '$end' ends the session with StopIteration(summary).  It fails for      *)
(* '$self': the label is stored as the state and the call raises           *)
(* ValueError.                                                             *)
(***************************************************************************)
\* a state method has run in this step and returned (label, result)
StateReturned(label) ==
    /\ session # NoSession
    /\ session.framework.dispatch = "StateMachine"
    /\ history'.resumes = history.resumes + 1
    /\ history'.did.type = "return"
    /\ history'.did.label = label

SelfAndEndStep ==
    /\ StateReturned("$self") =>
          /\ ret'.status = "done"
          /\ ret'.value = history'.did.result
          /\ session'.state_label = history'.ran[1]
    /\ StateReturned("$end") =>
          /\ ret'.status = "stopped"
          /\ ret'.value = history'.did.result
          /\ has_finished(session')
          /\ session'.summary = history'.did.result

C27_SelfKeepsStateEndStops == [][SelfAndEndStep]_vars

(***************************************************************************)
(* C28.  With a stage-sequence resume_session the stage that runs is the   *)
(* one at the session's stage counter, which starts at the first decorated *)
(* method; the counter advances by exactly one if the stage returned True  *)
(* as its first element and is unchanged otherwise; the dispatcher raises  *)
(* StopIteration(summary) when the final stage returns (True, summary),    *)
(* and StopIteration leaves resume_session otherwise only if the stage     *)
(* method raised it itself; the counter never exceeds the number of        *)
(* stages.                                                                 *)
(***************************************************************************)
StageSequences == {"StagesSequence", "StageSequence", "linear_stages"}

\* a stage method has run in this step
StageRan ==
    /\ session # NoSession
    /\ session.framework.dispatch \in StageSequences
    /\ history'.resumes = history.resumes + 1
    /\ history'.ran # <<>>

FinalStageReturnedTrue ==
    /\ history'.did.type = "return"
    /\ history'.did.inc
    /\ session.stage_counter = session.framework.stages - 1

CounterStep ==
    /\ history'.ran[1] = ToString(session.stage_counter)
    /\ session'.stage_counter =
          IF history'.did.type = "return" /\ history'.did.inc
          THEN session.stage_counter + 1 ELSE session.stage_counter
    /\ FinalStageReturnedTrue =>
          ret'.status = "stopped" /\ ret'.value = history'.did.result

SequenceStep ==
    IF StageRan
    THEN /\ CounterStep
         /\ ret'.status = "stopped" <=>
               FinalStageReturnedTrue \/ history'.did.type = "stop"
    ELSE (session # NoSession /\ session.framework.dispatch \in StageSequences)
            => session'.stage_counter = session.stage_counter

CounterInRange ==
    (session # NoSession /\ session.framework.dispatch \in StageSequences) =>
       /\ session.stage_counter \in 0..session.framework.stages
       /\ history.resumes = 0 => session.stage_counter = 0

OnlyFinalStageStops ==
    StageRan => (CounterStep /\ (ret'.status = "stopped" <=> FinalStageReturnedTrue))

MultipleChoiceResume ==
    /\ session # NoSession
    /\ session.framework.name = "MultipleChoices"
    /\ history'.resumes = history.resumes + 1
    /\ ~has_finished(session)

MultipleChoiceStep ==
    MultipleChoiceResume =>
       /\ (~has_started(session) /\ call'.response = EmptyResponse) =>
             /\ ret'.status = "done"
             /\ ret'.value.kind = "question"
             /\ ret'.value.choices = "tuple"
             /\ session'.public = ret'.value
             /\ has_started(session')
             /\ ~has_finished(session')
       /\ (has_started(session) /\ call'.response.kw = "selected_choice") =>
             /\ ret'.status = "stopped"
             /\ ret'.value.kind = "report"
             /\ IF call'.response.value = session.framework.answer
                THEN /\ ret'.value.status = "correct"
                     /\ ret'.value.score = session.framework.score
                ELSE /\ ret'.value.status = "incorrect"
                     /\ ret'.value.score = 0
             /\ has_finished(session')
             /\ session'.summary = ret'.value

C29_MultipleChoiceSession == [][MultipleChoiceStep]_vars

\* a wrong choice has ended the session with 'incorrect' and score 0
C29_Witness ==
    /\ session # NoSession
    /\ session.framework.name = "MultipleChoices"
    /\ call.fn = "submit"
    /\ call.response.kw = "selected_choice"
    /\ call.response.value # session.framework.answer
    /\ has_finished(session)
    /\ session.summary.status = "incorrect"
    /\ session.summary.score = 0
    /\ session.framework.score > 0

(***************************************************************************)
(* C30.  A node's score is computed only from operands whose NodeResult is *)
(* complete, and operands are resolved in declaration order: whenever an   *)
(* operator takes the score of its next operand, or a conditional takes    *)
(* the score of its condition or of the branch it chose, that node has     *)
(* been completed.  It fails on a graph with a cycle, where the score is   *)
(* read from the placeholder of a node still in progress.                  *)
(***************************************************************************)
\* this step reads the score of node n for the node on top of the stack
ReadsScoreOf(n) ==
    /\ pc = "running"
    /\ stack # <<>>
    /\ n = Pending(top)
    /\ n # 0
    /\ InMemo(n)
    /\ \/ /\ Len(stack') = Len(stack)
          /\ stack'[Len(stack)].node = top.node
          /\ stack'[Len(stack)].i = top.i + 1
       \/ /\ nodes[top.node].kind = "TernaryIf"
          /\ top.i = 1
          /\ Len(stack') = Len(stack) - 1

OperandsFirstStep ==
    /\ \A n \in NodeIds : ReadsScoreOf(n) => Completed(n)
    /\ \A j \in 1..Len(stack) :
          nodes[stack[j].node].kind = "Operator" =>
             \A k \in 1..stack[j].i : InMemo(nodes[stack[j].node].operand[k])

C30_OperandsResolvedFirst == [][OperandsFirstStep]_vars

(***************************************************************************)
(* C31.  A completed TernaryIfNode has the success and the score of        *)
(* then_expr when the score of if_expr's NodeResult is nonzero, and of     *)
(* else_expr otherwise.  Its evaluate asks the Result for if_expr and for  *)
(* the branch taken only: the other branch has no NodeResult when the      *)
(* ternary is all there is, and has one, evaluated once, when a node_sum   *)
(* reaches both branches as well.                                          *)
(***************************************************************************)
Taken(t) ==
    IF processed[nodes[t].operand[1]].score # 0
    THEN nodes[t].operand[2] ELSE nodes[t].operand[3]
NotTaken(t) ==
    IF processed[nodes[t].operand[1]].score # 0
    THEN nodes[t].operand[3] ELSE nodes[t].operand[2]

TernaryResult ==
    \A t \in OfKind("TernaryIf") :
       Completed(t) =>
          /\ Completed(nodes[t].operand[1])
          /\ Completed(Taken(t))
          /\ processed[t].success = processed[Taken(t)].success
          /\ processed[t].score = processed[Taken(t)].score

OtherBranch ==
    \A t \in OfKind("TernaryIf") :
       (pc = "done" /\ onDemand = 0 /\ Completed(t)) =>
          /\ shape = "ternary" => ~InMemo(NotTaken(t))
          /\ shape = "sharedbranch" =>
                /\ Completed(NotTaken(t))
                /\ evalCount[NotTaken(t)] = 1
                /\ evalCount[Taken(t)] = 1

\* a node gets its NodeResult from an evaluate of a TernaryIfNode only as
\* that node's if_expr or as the branch taken
TernaryStep ==
    \A n \in NodeIds :
       (~InMemo(n) /\ n \in DOMAIN processed' /\ stack # <<>>
          /\ nodes[top.node].kind = "TernaryIf") =>
           \/ n = nodes[top.node].operand[1]
           \/ /\ Completed(nodes[top.node].operand[1])
              /\ n = Taken(top.node)

C31_TernaryIf == [][TernaryStep]_vars /\ [](TernaryResult /\ OtherBranch)

C31_Witness ==
    /\ pc = "done"
    /\ onDemand = 0
    /\ shape = "sharedbranch"
    /\ \E t \in OfKind("TernaryIf") :
          /\ Completed(t)
          /\ processed[nodes[t].operand[1]].score = 0
          /\ processed[t].score = processed[nodes[t].operand[3]].score
          /\ processed[t].score # processed[nodes[t].operand[2]].score
          /\ processed[t].success # processed[nodes[t].operand[2]].success
          /\ evalCount[nodes[t].operand[2]] = 1

(***************************************************************************)
(* C32.  A program that a FileProgramTestNode runs for longer than the     *)
(* node's own time_limit is cancelled and the node is scored as a runtime  *)
(* error: the run raised, and the node's NodeResult carries the            *)
(* runtime_error message with score 0.                                     *)
(***************************************************************************)
C32_NodeTimeLimitApplied ==
    \A n \in OfKind("FileProgramTest") :
       Called(n, "overtime") =>
          /\ Called(n, "raised")
          /\ HasMessage(n, "runtime_error")
          /\ processed[n].score = 0

(***************************************************************************)
(* C33.  Once a NodeResult is marked complete its messages no longer       *)
(* change: no step adds, replaces or removes a message of a completed      *)
(* NodeResult.                                                             *)
(***************************************************************************)
MessagesReadOnlyStep ==
    \A n \in DOMAIN processed :
       processed[n].completed =>
          processed'[n].messages = processed[n].messages

C33_CompletedMessagesReadOnly == [][MessagesReadOnlyStep]_vars

(***************************************************************************)
(* C34.  StandardCheckScript.check_answer returns True exactly when the    *)
(* token streams of output and solution (the words of each line, then one  *)
(* newline token per line) are identical, and so returns False when either *)
(* file has one more token or line than the other.                         *)
(***************************************************************************)
C34_StandardCheckScript ==
    (call.fn = "StandardCheckScript" /\ ret.status = "done") =>
        ret.value = (words_stream(call.output) = words_stream(call.solution))

(***************************************************************************)
(* C35.  Whenever the holder of a constructed Result is in control, every  *)
(* NodeResult in the memo table is marked completed, so that no lookup     *)
(* result[key] hands out an in-progress placeholder; also after an         *)
(* on-demand evaluation has raised an exception.                           *)
(***************************************************************************)
C35_HandedOutComplete ==
    pc = "done" => \A n \in DOMAIN processed : processed[n].completed

(***************************************************************************)
(* C36.  Two Results constructed over the same graph without a Lottery     *)
(* leaf and with equal data end alike: both constructions return or both   *)
(* raise the same error, they visit the same nodes, each once, give every  *)
(* visited node the same NodeResult (success, score, messages), and have   *)
(* the same final score.                                                   *)
(***************************************************************************)
Constructed(result) == result.pc \in {"done", "failed"} /\ result.onDemand = 0

LotteryFree == \A n \in NodeIds : nodes[n].kind # "Lottery"

C36_Deterministic ==
    (/\ second # NoResult
     /\ Constructed(ThisResult) /\ Constructed(second)
     /\ data = second.data
     /\ LotteryFree) =>
        /\ pc = second.pc
        /\ error = second.error
        /\ DOMAIN processed = DOMAIN second.processed
        /\ \A n \in DOMAIN processed :
              /\ processed[n].success = second.processed[n].success
              /\ processed[n].score = second.processed[n].score
              /\ processed[n].messages = second.processed[n].messages
        /\ evalCount = second.evalCount
        /\ final_score = second.final_score

\* both Results skipped the second link of a chain whose first link, an
\* AnswerOnlyTest given a wrong answer, scored 0
C36_Witness ==
    /\ second # NoResult
    /\ pc = "done" /\ second.pc = "done"
    /\ onDemand = 0 /\ second.onDemand = 0
    /\ data = second.data
    /\ LotteryFree
    /\ shape = "chains"
    /\ nodes[LeafId(1)].kind = "AnswerOnlyTest"
    /\ AnswerKey \in DOMAIN data
    /\ processed[LeafId(1)].score = 0
    /\ second.processed[LeafId(1)].score = 0
    /\ LeafId(2) \notin DOMAIN processed
    /\ LeafId(2) \notin DOMAIN second.processed
    /\ final_score = 0

(***************************************************************************)
(* C37.  After a call of submit or of __next__, whether it returned or     *)
(* raised and whatever state the session was in, the session's prepared    *)
(* responses are empty again.                                              *)
(***************************************************************************)
C37_PreparedCleared ==
    call.fn \in {"submit", "__next__"} => session.prepared = EmptyResponse

(***************************************************************************)
(* C38.  When a state method of a StateMachine returns a next-state label  *)
(* that is neither '$end' nor a registered state, the call raises          *)
(* ValueError and the session's state label is the one it had before the   *)
(* call, so that the session can be resumed from that state.               *)
(***************************************************************************)
InvalidLabelStep ==
    \A label \in NextLabels(MaxStages) :
       (/\ StateReturned(label)
        /\ label # "$end"
        /\ label \notin _methods(session.framework.stages)) =>
           /\ ret'.status = "raised"
           /\ ret'.value = "ValueError"
           /\ session'.state_label = history'.ran[1]
           /\ get_current_phase(session').out.status = "done"

C38_InvalidLabelKeepsState == [][InvalidLabelStep]_vars

(***************************************************************************)
(* C39.  When a resume of an unfinished session ends with an exception     *)
(* other than StopIteration that comes out of a stage-sequence             *)
(* resume_session, or out of the stage or state method that resume_session *)
(* dispatched to, the exception reaches the caller, has_started,           *)
(* has_finished, the public data and the stage position are what they were *)
(* before the call, the prepared responses are empty, and some response    *)
(* resumes the session without an error.                                   *)
(***************************************************************************)
\* this step is a resume in which resume_session raised; a submit whose
\* bind hook raises does not get as far as resume_session
ResumeSessionRaised ==
    /\ session # NoSession
    /\ history'.resumes = history.resumes + 1
    /\ ~has_finished(session)
    /\ ret'.status = "raised"
    /\ call'.fn = "submit" => bind_hook(session).out.status # "raised"
    /\ \/ session.framework.dispatch # "StateMachine"
       \/ history'.did.type = "raise"

CanBeResumed(s) ==
    \E response \in Responses :
    \E o \in CurrentOutcomes([s EXCEPT !.prepared = response]) :
       submit(s, response, o).out.status \in {"done", "stopped"}

RaisedResumeStep ==
    ResumeSessionRaised =>
       /\ history'.did.type = "raise"
       /\ ret'.value = history'.did.exc
       /\ has_started(session') = has_started(session)
       /\ has_finished(session') = has_finished(session)
       /\ session'.public = session.public
       /\ session'.summary = session.summary
       /\ session'.stage_counter = session.stage_counter
       /\ session'.state_label = session.state_label
       /\ session'.prepared = EmptyResponse
       /\ CanBeResumed(session')

====
